---- MODULE Spec2Model ----
(***************************************************************************)
(* RedesignedAppTierClassifier (src/app_tier_classifier.py): the rule and  *)
(* weight engine that maps a list of installed apps and an optional usage  *)
(* mapping to spending, geographic and lifestyle tiers.                    *)
(*                                                                         *)
(* Representation.                                                         *)
(*  - A Python str is a sequence of one-character strings, so that         *)
(*    str.lower, str.replace, the f-string keys and the "in" substring     *)
(*    test are computed character by character.                            *)
(*  - An entry of installed_apps is [type, chars]: type is the Python type *)
(*    of the entry ("str", "float", "NoneType"), chars its characters when *)
(*    it is a str.                                                         *)
(*  - A real number is an integer count of millionths (Unit = 1.0).  The   *)
(*    weights are decimals with at most two places and the usage figures   *)
(*    are integers, so every score is a whole number of millionths and the *)
(*    arithmetic below is exact; the binary rounding error of Python       *)
(*    floats (0.29219999999999996 for 0.2922) is outside the model.        *)
(*  - behavioral_data is [is_none, items]: None, or a dict given as a      *)
(*    function from keys to numbers.                                       *)
(***************************************************************************)
EXTENDS Integers, Sequences, FiniteSets, TLC

VARIABLES
    neutral_apps,              \* self.neutral_apps
    tier_discriminators,       \* self.tier_discriminators
    neutral_behavior_weights,  \* self.neutral_behavior_weights
    discriminator_weights,     \* self.discriminator_weights
    calls,                     \* the calls made on the classifier so far, oldest first
    resolutions,               \* the scores given to a tier resolver alone, and its answers
    workers                    \* the call each concurrent worker is in, and where it stands

vars == <<neutral_apps, tier_discriminators, neutral_behavior_weights,
          discriminator_weights, calls, resolutions, workers>>

\* 1.0 in millionths, and 0.001
Unit == 1000 * 1000
Milli == Unit \div 1000

\* the number of calls of one run of the model
MaxCalls == 3

\* the number of scores one run gives to a tier resolver alone
MaxResolutions == 3

\* the number of workers that call the classifier at the same time
MaxWorkers == 2

(***************************************************************************)
(* Python built-ins                                                        *)
(***************************************************************************)
UPPERCASE == <<"A","B","C","D","E","F","G","H","I","J","K","L","M",
               "N","O","P","Q","R","S","T","U","V","W","X","Y","Z">>
LOWERCASE == <<"a","b","c","d","e","f","g","h","i","j","k","l","m",
               "n","o","p","q","r","s","t","u","v","w","x","y","z">>

\* str.lower() of one character
char_lower(c) ==
    IF \E i \in 1..Len(UPPERCASE) : UPPERCASE[i] = c
    THEN LOWERCASE[CHOOSE i \in 1..Len(UPPERCASE) : UPPERCASE[i] = c]
    ELSE c

\* s.lower()
str_lower(s) == [i \in 1..Len(s) |-> char_lower(s[i])]

\* s.replace(old, new) for one-character old and new
str_replace(s, old, new) == [i \in 1..Len(s) |-> IF s[i] = old THEN new ELSE s[i]]

\* x in xs, for a list xs
list_contains(xs, x) == \E i \in 1..Len(xs) : xs[i] = x

\* sub in s, for strings
str_contains(s, sub) ==
    \E i \in 0..(Len(s) - Len(sub)) :
        \A j \in 1..Len(sub) : s[i + j] = sub[j]

\* d.get(key, default)
dict_get(d, key, default) == IF key \in DOMAIN d THEN d[key] ELSE default

\* min that returns its first argument
Min_uncapped(a, b) == a

\* min(a, b)
Min(a, b) == IF a <= b THEN a ELSE b

\* round(x, 1): to the nearest tenth
round1(x) ==
    LET step == 100 * Milli
        q == x \div step
        r == x % step
    IN  IF 2 * r > step \/ (2 * r = step /\ q % 2 = 1)
        THEN (q + 1) * step
        ELSE q * step

\* round(x, 2): to the nearest hundredth, a tie going to the even hundredth.
\* In the code a score that is a tie in decimal (0.265) is a float slightly
\* above or below it and goes to that side; the direction of such a tie is the
\* one place where the reported figures of the model and of the code differ.
round2(x) ==
    LET step == 10 * Milli
        q == x \div step
        r == x % step
    IN  IF 2 * r > step \/ (2 * r = step /\ q % 2 = 1)
        THEN (q + 1) * step
        ELSE q * step

(***************************************************************************)
(* __init__: the four static tables                                        *)
(***************************************************************************)
NEUTRAL_APPS == [
    food_delivery |-> <<
        <<"z","o","m","a","t","o">>,
        <<"s","w","i","g","g","y">>,
        <<"b","l","i","n","k","i","t">>,
        <<"z","e","p","t","o">> >>,
    transportation |-> <<
        <<"o","l","a">>,
        <<"u","b","e","r">>,
        <<"r","a","p","i","d","o">> >>,
    payments |-> <<
        <<"p","a","y","t","m">>,
        <<"p","h","o","n","e","p","e">>,
        <<"g","o","o","g","l","e","_","p","a","y">>,
        <<"a","m","a","z","o","n","_","p","a","y">> >>,
    ecommerce |-> <<
        <<"f","l","i","p","k","a","r","t">>,
        <<"a","m","a","z","o","n">>,
        <<"m","y","n","t","r","a">> >>,
    travel |-> <<
        <<"i","r","c","t","c">>,
        <<"m","a","k","e","m","y","t","r","i","p">>,
        <<"g","o","i","b","i","b","o">> >>,
    social_media |-> <<
        <<"i","n","s","t","a","g","r","a","m">>,
        <<"f","a","c","e","b","o","o","k">>,
        <<"w","h","a","t","s","a","p","p">>,
        <<"t","e","l","e","g","r","a","m">> >>,
    entertainment |-> <<
        <<"y","o","u","t","u","b","e">>,
        <<"n","e","t","f","l","i","x">>,
        <<"s","p","o","t","i","f","y">> >> ]

TIER_DISCRIMINATORS == [
    tier_a_premium |-> <<
        <<"c","r","e","d">>,
        <<"i","n","d","m","o","n","e","y">>,
        <<"z","e","r","o","d","h","a">>,
        <<"j","u","p","i","t","e","r">>,
        <<"g","r","o","w","w">>,
        <<"a","i","r","b","n","b">>,
        <<"u","r","b","a","n","_","c","o","m","p","a","n","y">>,
        <<"n","y","k","a","a","_","l","u","x","e">>,
        <<"l","i","n","k","e","d","i","n","_","p","r","e","m","i","u","m">>,
        <<"a","p","p","l","e","_","m","u","s","i","c">>,
        <<"t","a","j","_","h","o","t","e","l","s">>,
        <<"b","i","n","a","n","c","e">>,
        <<"w","a","z","i","r","x">>,
        <<"a","d","o","b","e","_","c","r","e","a","t","i","v","e">>,
        <<"n","o","t","i","o","n">>,
        <<"f","i","g","m","a">>,
        <<"s","l","a","c","k">> >>,
    tier_b_mainstream |-> <<
        <<"m","e","e","s","h","o">>,
        <<"a","j","i","o">>,
        <<"t","a","t","a","_","n","e","u">>,
        <<"b","y","j","u">>,
        <<"u","n","a","c","a","d","e","m","y">>,
        <<"s","o","n","y","_","l","i","v">>,
        <<"m","a","g","i","c","b","r","i","c","k","s">>,
        <<"a","p","n","a">>,
        <<"n","a","u","k","r","i">>,
        <<"b","o","o","k","m","y","s","h","o","w">>,
        <<"p","r","a","c","t","o">>,
        <<"p","o","l","i","c","y","b","a","z","a","a","r">> >>,
    tier_c_budget |-> <<
        <<"l","u","d","o","_","k","i","n","g">>,
        <<"s","h","a","r","e","c","h","a","t">>,
        <<"m","o","j">>,
        <<"k","r","e","d","i","t","b","e","e">>,
        <<"c","a","s","h","b","e","a","n">>,
        <<"w","i","n","z","o">>,
        <<"b","h","a","r","a","t","p","e","_","m","e","r","c","h","a","n","t">>,
        <<"u","c","_","b","r","o","w","s","e","r">>,
        <<"s","n","a","c","k","_","v","i","d","e","o">>,
        <<"l","i","k","e","e">>,
        <<"m","x","_","t","a","k","a","t","a","k">>,
        <<"j","o","s","h">>,
        <<"c","h","i","n","g","a","r","i">> >> ]

\* dict iteration order of self.neutral_apps and self.tier_discriminators
NEUTRAL_CATEGORIES ==
    <<"food_delivery", "transportation", "payments", "ecommerce",
      "travel", "social_media", "entertainment">>
DISCRIMINATOR_CATEGORIES ==
    <<"tier_a_premium", "tier_b_mainstream", "tier_c_budget">>

\* a table with weights for each of the seven neutral categories
NEUTRAL_BEHAVIOR_WEIGHTS_FOR_ALL ==
    [category \in DOMAIN NEUTRAL_APPS |->
        [frequency_weight |-> 50 * Milli, aov_weight |-> 100 * Milli,
         total_spend_weight |-> 80 * Milli]]

NEUTRAL_BEHAVIOR_WEIGHTS == [
    food_delivery  |-> [frequency_weight |-> 50 * Milli, aov_weight |-> 100 * Milli,
                        total_spend_weight |-> 80 * Milli],
    transportation |-> [frequency_weight |-> 50 * Milli, aov_weight |-> 80 * Milli,
                        total_spend_weight |-> 60 * Milli],
    payments       |-> [frequency_weight |-> 20 * Milli, aov_weight |-> 150 * Milli,
                        total_spend_weight |-> 120 * Milli],
    ecommerce      |-> [frequency_weight |-> 50 * Milli, aov_weight |-> 100 * Milli,
                        total_spend_weight |-> 80 * Milli] ]

\* the weights with the signs of tier C dropped
DISCRIMINATOR_WEIGHTS_UNSIGNED == [
    tier_a_premium    |-> [spending |-> 1000 * Milli, geographic |-> 800 * Milli,
                           lifestyle |-> 800 * Milli],
    tier_b_mainstream |-> [spending |-> 300 * Milli, geographic |-> 400 * Milli,
                           lifestyle |-> 500 * Milli],
    tier_c_budget     |-> [spending |-> 400 * Milli, geographic |-> 500 * Milli,
                           lifestyle |-> 300 * Milli] ]

DISCRIMINATOR_WEIGHTS == [
    tier_a_premium    |-> [spending |-> 1000 * Milli, geographic |-> 800 * Milli,
                           lifestyle |-> 800 * Milli],
    tier_b_mainstream |-> [spending |-> 300 * Milli, geographic |-> 400 * Milli,
                           lifestyle |-> 500 * Milli],
    tier_c_budget     |-> [spending |-> -(400 * Milli), geographic |-> -(500 * Milli),
                           lifestyle |-> -(300 * Milli)] ]

(***************************************************************************)
(* analyze_apps_with_behavior and its helpers                              *)
(***************************************************************************)
\* app.lower() for one entry, its spaces kept
normalize_app_lower_only(app) == str_lower(app.chars)

\* app.lower().replace(' ', '_') for one entry of installed_apps
normalize_app(app) == str_replace(str_lower(app.chars), " ", "_")

\* a normalization that passes over the entries that are not str
normalize_error_never(installed_apps) == ""

\* a normalization that looks every name up in the taxonomy and raises KeyError
\* for a name of no category
normalize_error_on_unknown(installed_apps) ==
    IF \E i \in 1..Len(installed_apps) : installed_apps[i].type /= "str"
    THEN "AttributeError"
    ELSE IF \E i \in 1..Len(installed_apps) :
               /\ \A category \in DOMAIN NEUTRAL_APPS :
                     ~list_contains(NEUTRAL_APPS[category],
                                    normalize_app(installed_apps[i]))
               /\ \A category \in DOMAIN TIER_DISCRIMINATORS :
                     ~list_contains(TIER_DISCRIMINATORS[category],
                                    normalize_app(installed_apps[i]))
    THEN "KeyError"
    ELSE ""

\* The list comprehension of line 104 raises at the first entry that is not a
\* str: AttributeError for an object without a lower method (an int, None, a
\* float such as the NaN of an empty CSV cell), TypeError for a bytes object,
\* whose replace does not take str arguments.  "" when no entry raises.
normalize_error(installed_apps) ==
    LET bad == {i \in 1..Len(installed_apps) : installed_apps[i].type /= "str"}
    IN  IF bad = {} THEN ""
        ELSE LET first == CHOOSE i \in bad : \A j \in bad : i <= j
             IN  IF installed_apps[first].type = "bytes" THEN "TypeError"
                 ELSE "AttributeError"

\* apps_lower = [app.lower().replace(' ', '_') for app in installed_apps]
normalize(installed_apps) ==
    [i \in 1..Len(installed_apps) |-> normalize_app(installed_apps[i])]

\* a list of matches that is the list of the table itself, filtered in place
list_owner_table(apps, matches) == "table"

\* The list comprehensions of lines 144 and 168 make a new list object each
\* time: the list put in the report belongs to the report, not to the table.
list_owner(apps, matches) == "report"

\* the matches taken from the installed list, one for each of its entries:
\* [app for app in apps_lower if app in apps]
category_matches_of_installed(apps, apps_lower) ==
    SelectSeq(apps_lower, LAMBDA app : list_contains(apps, app))

\* matches = [app for app in apps if app in apps_lower]
category_matches(apps, apps_lower) ==
    SelectSeq(apps, LAMBDA app : list_contains(apps_lower, app))

\* accumulators that are kept on the classifier and start a call at the neutral
\* totals of the call before it
zero_scores_kept ==
    IF calls = <<>> \/ calls[Len(calls)].returned = <<>>
    THEN [spending |-> 0, geographic |-> 0, lifestyle |-> 0]
    ELSE [spending |-> calls[Len(calls)].returned[1].neutral_analysis.spending,
          geographic |-> calls[Len(calls)].returned[1].neutral_analysis.geographic,
          lifestyle |-> calls[Len(calls)].returned[1].neutral_analysis.lifestyle]

\* scores = {'spending': 0, 'geographic': 0, 'lifestyle': 0}
zero_scores == [spending |-> 0, geographic |-> 0, lifestyle |-> 0]

\* the multiplier of a category that counts as one signal however many of its
\* apps are installed
score_multiplier_capped(matches) == Min(Len(matches), 1)

\* score_multiplier = len(matches)
score_multiplier(matches) == Len(matches)

\* one pass of the loop of _analyze_discriminators, over category i
discriminator_pass(i, apps_lower, acc) ==
    LET category == DISCRIMINATOR_CATEGORIES[i]
        matches == category_matches(tier_discriminators[category], apps_lower)
        weights == discriminator_weights[category]
        matched == [acc.matched_apps EXCEPT ![category] = matches]
    IN  IF matches /= <<>>
        THEN [spending   |-> acc.spending
                               + weights.spending * score_multiplier(matches),
              geographic |-> acc.geographic
                               + weights.geographic * score_multiplier(matches),
              lifestyle  |-> acc.lifestyle
                               + weights.lifestyle * score_multiplier(matches),
              matched_apps |-> matched]
        ELSE [acc EXCEPT !.matched_apps = matched]

\* the loop of _analyze_discriminators from category i on
RECURSIVE discriminator_loop(_, _, _)
discriminator_loop(i, apps_lower, acc) ==
    IF i > Len(DISCRIMINATOR_CATEGORIES) THEN acc
    ELSE discriminator_loop(i + 1, apps_lower, discriminator_pass(i, apps_lower, acc))

\* scores and matched_apps as lines 140-141 make them
discriminator_start ==
    [spending |-> zero_scores.spending,
     geographic |-> zero_scores.geographic,
     lifestyle |-> zero_scores.lifestyle,
     matched_apps |-> [tier_a_premium |-> <<>>, tier_b_mainstream |-> <<>>,
                       tier_c_budget |-> <<>>]]

_analyze_discriminators(apps_lower) ==
    discriminator_loop(1, apps_lower, discriminator_start)

\* the suffixes of the f-string keys of lines 174-176
ORDERS_PER_MONTH == <<"_","o","r","d","e","r","s","_","p","e","r","_","m","o","n","t","h">>
AVG_ORDER_VALUE == <<"_","a","v","g","_","o","r","d","e","r","_","v","a","l","u","e">>
MONTHLY_SPEND == <<"_","m","o","n","t","h","l","y","_","s","p","e","n","d">>

\* the score with the order value and the monthly spend taken as they are,
\* not by the hundred and by the thousand
behavioral_score_unnormalized(frequency, aov, monthly_spend, weights) ==
    frequency * weights.frequency_weight
    + aov * (weights.aov_weight \div Milli)
    + monthly_spend * (weights.total_spend_weight \div Milli)

\* behavioral_score of lines 183-187; the weights are in millionths, the
\* usage figures are plain numbers
behavioral_score(frequency, aov, monthly_spend, weights) ==
    frequency * weights.frequency_weight
    + (aov * weights.aov_weight) \div 100
    + (monthly_spend * weights.total_spend_weight) \div 1000

\* the geographic share taken with the lifestyle multiplier
geographic_share_as_lifestyle(score) == (score * 3) \div 10

\* behavioral_score * 0.5 and behavioral_score * 0.3 (lines 190-191)
geographic_share(score) == (score * 5) \div 10
lifestyle_share(score) == (score * 3) \div 10

\* the usage figures with a monthly spend that defaults to the product of the
\* two default figures, whatever frequency and order value were supplied
usage_of_fixed_spend(proxy, data) ==
    [frequency |-> dict_get(data, proxy \o ORDERS_PER_MONTH, 5),
     aov |-> dict_get(data, proxy \o AVG_ORDER_VALUE, 200),
     monthly_spend |-> dict_get(data, proxy \o MONTHLY_SPEND, 5 * 200)]

\* the usage figures with the transaction keys of the proxy app read before
\* its order keys
usage_of_transactions(proxy, data) ==
    LET frequency == dict_get(data, proxy \o <<"_","t","x","n","_","c","o","u","n","t">>,
                              dict_get(data, proxy \o ORDERS_PER_MONTH, 5))
        aov == dict_get(data, proxy \o <<"_","t","x","n","_","a","v","g","_","v","a","l","u","e">>,
                        dict_get(data, proxy \o AVG_ORDER_VALUE, 200))
    IN  [frequency |-> frequency,
         aov |-> aov,
         monthly_spend |-> dict_get(data, proxy \o MONTHLY_SPEND, frequency * aov)]

\* the usage figures read for the proxy app (lines 174-180)
usage_of(proxy, data) ==
    LET frequency == dict_get(data, proxy \o ORDERS_PER_MONTH, 5)
        aov == dict_get(data, proxy \o AVG_ORDER_VALUE, 200)
    IN  [frequency |-> frequency,
         aov |-> aov,
         monthly_spend |-> dict_get(data, proxy \o MONTHLY_SPEND, frequency * aov)]

\* the last of the matched apps as the proxy
proxy_app_last(matches) == matches[Len(matches)]

\* matches[0], the app whose keys are read (lines 174-176)
proxy_app(matches) == matches[1]

\* a pass that reports every category with a match, with weights of zero for a
\* category that has none
neutral_pass_reporting_all(i, apps_lower, data, acc) ==
    LET category == NEUTRAL_CATEGORIES[i]
        matches == category_matches(neutral_apps[category], apps_lower)
    IN  IF matches /= <<>>
        THEN
            LET weights == IF category \in DOMAIN neutral_behavior_weights
                           THEN neutral_behavior_weights[category]
                           ELSE [frequency_weight |-> 0, aov_weight |-> 0,
                                 total_spend_weight |-> 0]
                usage == usage_of(proxy_app(matches), data)
                score == behavioral_score(usage.frequency, usage.aov,
                                          usage.monthly_spend, weights)
            IN  [spending   |-> acc.spending + score,
                 geographic |-> acc.geographic + geographic_share(score),
                 lifestyle  |-> acc.lifestyle + lifestyle_share(score),
                 usage_patterns |->
                     (category :> [apps |-> matches,
                                   frequency |-> usage.frequency,
                                   aov |-> usage.aov,
                                   monthly_spend |-> usage.monthly_spend,
                                   behavioral_score |-> score])
                     @@ acc.usage_patterns]
        ELSE acc

\* one pass of the loop of _analyze_neutral_apps, over category i
neutral_pass(i, apps_lower, data, acc) ==
    LET category == NEUTRAL_CATEGORIES[i]
        matches == category_matches(neutral_apps[category], apps_lower)
    IN  IF matches /= <<>> /\ category \in DOMAIN neutral_behavior_weights
        THEN
            LET weights == neutral_behavior_weights[category]
                usage == usage_of(proxy_app(matches), data)
                score == behavioral_score(usage.frequency, usage.aov,
                                          usage.monthly_spend, weights)
            IN  [spending   |-> acc.spending + score,
                 geographic |-> acc.geographic + geographic_share(score),
                 lifestyle  |-> acc.lifestyle + lifestyle_share(score),
                 usage_patterns |->
                     (category :> [apps |-> matches,
                                   frequency |-> usage.frequency,
                                   aov |-> usage.aov,
                                   monthly_spend |-> usage.monthly_spend,
                                   behavioral_score |-> score])
                     @@ acc.usage_patterns]
        ELSE acc

\* the loop of _analyze_neutral_apps from category i on
RECURSIVE neutral_loop(_, _, _, _)
neutral_loop(i, apps_lower, data, acc) ==
    IF i > Len(NEUTRAL_CATEGORIES) THEN acc
    ELSE neutral_loop(i + 1, apps_lower, data, neutral_pass(i, apps_lower, data, acc))

\* scores and neutral_usage as lines 160-161 make them
neutral_start ==
    [spending |-> zero_scores.spending,
     geographic |-> zero_scores.geographic,
     lifestyle |-> zero_scores.lifestyle,
     usage_patterns |-> <<>>]

\* behavioral_data after lines 163-165: {} for None
usage_items(behavioral_data) ==
    IF behavioral_data.is_none THEN <<>> ELSE behavioral_data.items

_analyze_neutral_apps(apps_lower, behavioral_data) ==
    neutral_loop(1, apps_lower, usage_items(behavioral_data), neutral_start)

\* the three labels of _get_spending_tier, and the words _get_recommendations
\* looks for in them
PREMIUM_TIER == <<"P","r","e","m","i","u","m"," ","(","₹","5","0",",","0","0","0","+"," ","m","o","n","t","h","l","y",")">>
STANDARD_TIER == <<"S","t","a","n","d","a","r","d"," ","(","₹","1","5",",","0","0","0","-","5","0",",","0","0","0"," ","m","o","n","t","h","l","y",")">>
BASIC_TIER == <<"B","a","s","i","c"," ","(","₹","5",",","0","0","0","-","1","5",",","0","0","0"," ","m","o","n","t","h","l","y",")">>
PREMIUM_WORD == <<"P","r","e","m","i","u","m">>
STANDARD_WORD == <<"S","t","a","n","d","a","r","d">>

\* the spending tiers with the thresholds excluded
_get_spending_tier_exclusive(score) ==
    IF score > 4000 * Milli THEN PREMIUM_TIER
    ELSE IF score > 1500 * Milli THEN STANDARD_TIER
    ELSE BASIC_TIER

_get_spending_tier(score) ==
    IF score >= 4000 * Milli THEN PREMIUM_TIER
    ELSE IF score >= 1500 * Milli THEN STANDARD_TIER
    ELSE BASIC_TIER

\* the geographic tiers with the thresholds excluded
_get_geographic_tier_exclusive(score) ==
    IF score > 800 * Milli THEN "Tier 1 City (Mumbai, Delhi, Bangalore, etc.)"
    ELSE IF score > 300 * Milli THEN "Tier 2 City (Pune, Hyderabad, Chennai, etc.)"
    ELSE "Tier 3 City (Smaller cities and towns)"

_get_geographic_tier(score) ==
    IF score >= 800 * Milli THEN "Tier 1 City (Mumbai, Delhi, Bangalore, etc.)"
    ELSE IF score >= 300 * Milli THEN "Tier 2 City (Pune, Hyderabad, Chennai, etc.)"
    ELSE "Tier 3 City (Smaller cities and towns)"

\* the lifestyle categories with the thresholds excluded
_get_lifestyle_category_exclusive(score) ==
    IF score > 600 * Milli THEN "Professional/Urban"
    ELSE IF score > 200 * Milli THEN "Entertainment/Social"
    ELSE "Basic/Conservative"

_get_lifestyle_category(score) ==
    IF score >= 600 * Milli THEN "Professional/Urban"
    ELSE IF score >= 200 * Milli THEN "Entertainment/Social"
    ELSE "Basic/Conservative"

\* sum(len(apps) for apps in matched_apps.values())
RECURSIVE sum_of_lengths(_, _)
sum_of_lengths(matched_apps, i) ==
    IF i > Len(DISCRIMINATOR_CATEGORIES) THEN 0
    ELSE Len(matched_apps[DISCRIMINATOR_CATEGORIES[i]])
         + sum_of_lengths(matched_apps, i + 1)

\* the strength with a discriminator app weighted like a neutral category
total_strength_unweighted(discriminator_strength, neutral_strength) ==
    discriminator_strength + neutral_strength

\* total_strength of line 240
total_strength(discriminator_strength, neutral_strength) ==
    discriminator_strength * 2 + neutral_strength

\* the confidence with neutral_strength = len(neutral_scores), the number of
\* keys of the dictionary, in place of the number of its usage patterns
_calculate_confidence_of_keys(discriminator_scores, neutral_scores) ==
    LET discriminator_strength == sum_of_lengths(discriminator_scores.matched_apps, 1)
        neutral_strength == Cardinality(DOMAIN neutral_scores)
    IN  Min((total_strength(discriminator_strength, neutral_strength) * Unit) \div 10,
            Unit) * 100

_calculate_confidence(discriminator_scores, neutral_scores) ==
    LET discriminator_strength == sum_of_lengths(discriminator_scores.matched_apps, 1)
        neutral_strength == Cardinality(DOMAIN neutral_scores.usage_patterns)
    IN  Min((total_strength(discriminator_strength, neutral_strength) * Unit) \div 10,
            Unit) * 100

\* the three lists of _get_recommendations
PREMIUM_RECOMMENDATIONS ==
    <<"Consider premium financial apps like CRED or Zerodha",
      "High-value investment opportunities available",
      "Premium lifestyle services recommended">>
STANDARD_RECOMMENDATIONS ==
    <<"Balanced financial planning recommended",
      "Standard investment options suitable",
      "Moderate lifestyle services appropriate">>
BASIC_RECOMMENDATIONS ==
    <<"Budget-friendly financial tools recommended",
      "Basic investment options suitable",
      "Essential lifestyle services recommended">>

\* recommendations chosen by the lifestyle category and the geographic tier
_get_recommendations_by_lifestyle(spending_tier, geographic_tier, lifestyle_category) ==
    IF lifestyle_category = "Professional/Urban" THEN PREMIUM_RECOMMENDATIONS
    ELSE IF geographic_tier = "Tier 2 City (Pune, Hyderabad, Chennai, etc.)"
    THEN STANDARD_RECOMMENDATIONS
    ELSE BASIC_RECOMMENDATIONS

_get_recommendations(spending_tier, geographic_tier, lifestyle_category) ==
    IF str_contains(spending_tier, PREMIUM_WORD) THEN PREMIUM_RECOMMENDATIONS
    ELSE IF str_contains(spending_tier, STANDARD_WORD) THEN STANDARD_RECOMMENDATIONS
    ELSE BASIC_RECOMMENDATIONS

\* the dictionary with the tiers resolved from the rounded scores it reports
analysis_result_of_reported_scores(discriminator_scores, neutral_scores) ==
    LET spending_score == discriminator_scores.spending + neutral_scores.spending
        geographic_score == discriminator_scores.geographic + neutral_scores.geographic
        lifestyle_score == discriminator_scores.lifestyle + neutral_scores.lifestyle
        spending_tier == _get_spending_tier(round2(spending_score))
        geographic_tier == _get_geographic_tier(round2(geographic_score))
        lifestyle_category == _get_lifestyle_category(round2(lifestyle_score))
        confidence == _calculate_confidence(discriminator_scores, neutral_scores)
    IN  [spending_tier |-> spending_tier,
         geographic_tier |-> geographic_tier,
         lifestyle_category |-> lifestyle_category,
         spending_score |-> round2(spending_score),
         geographic_score |-> round2(geographic_score),
         lifestyle_score |-> round2(lifestyle_score),
         confidence |-> round2(confidence),
         discriminator_analysis |-> discriminator_scores,
         neutral_analysis |-> neutral_scores,
         recommendations |->
             _get_recommendations(spending_tier, geographic_tier, lifestyle_category)]

\* the dictionary of lines 125-136
analysis_result(discriminator_scores, neutral_scores) ==
    LET spending_score == discriminator_scores.spending + neutral_scores.spending
        geographic_score == discriminator_scores.geographic + neutral_scores.geographic
        lifestyle_score == discriminator_scores.lifestyle + neutral_scores.lifestyle
        spending_tier == _get_spending_tier(spending_score)
        geographic_tier == _get_geographic_tier(geographic_score)
        lifestyle_category == _get_lifestyle_category(lifestyle_score)
        confidence == _calculate_confidence(discriminator_scores, neutral_scores)
    IN  [spending_tier |-> spending_tier,
         geographic_tier |-> geographic_tier,
         lifestyle_category |-> lifestyle_category,
         spending_score |-> round2(spending_score),
         geographic_score |-> round2(geographic_score),
         lifestyle_score |-> round2(lifestyle_score),
         confidence |-> round2(confidence),
         discriminator_analysis |-> discriminator_scores,
         neutral_analysis |-> neutral_scores,
         recommendations |->
             _get_recommendations(spending_tier, geographic_tier, lifestyle_category)]

\* the steps of a call that returns, in the order of lines 104-135: the calls
\* it makes, and the three sums of lines 113-115
STEPS ==
    <<"normalize", "_analyze_discriminators", "_analyze_neutral_apps", "sum",
      "_get_spending_tier", "_get_geographic_tier", "_get_lifestyle_category",
      "_calculate_confidence", "_get_recommendations">>

\* the call with the discriminators analysed only when usage figures are given
analyze_apps_with_behavior_of_users(installed_apps, behavioral_data) ==
    IF normalize_error(installed_apps) /= ""
    THEN [raised |-> normalize_error(installed_apps), steps |-> <<STEPS[1]>>,
          returned |-> <<>>]
    ELSE
        LET apps_lower == normalize(installed_apps)
            discriminator_scores ==
                IF DOMAIN usage_items(behavioral_data) = {}
                THEN _analyze_discriminators(<<>>)
                ELSE _analyze_discriminators(apps_lower)
            neutral_scores == _analyze_neutral_apps(apps_lower, behavioral_data)
        IN  [raised |-> "", steps |-> STEPS,
             returned |-> <<analysis_result(discriminator_scores, neutral_scores)>>]

\* What one call does: raised is the exception that leaves the call ("" when it
\* returns), steps the steps entered, returned the list of values returned (one
\* dictionary, or none when the call raised).
analyze_apps_with_behavior(installed_apps, behavioral_data) ==
    IF normalize_error(installed_apps) /= ""
    THEN [raised |-> normalize_error(installed_apps), steps |-> <<STEPS[1]>>,
          returned |-> <<>>]
    ELSE
        LET apps_lower == normalize(installed_apps)
            discriminator_scores == _analyze_discriminators(apps_lower)
            neutral_scores == _analyze_neutral_apps(apps_lower, behavioral_data)
        IN  [raised |-> "", steps |-> STEPS,
             returned |-> <<analysis_result(discriminator_scores, neutral_scores)>>]

\* the workers, and a worker that is in no call
WORKERS == 1..MaxWorkers
IDLE ==
    [pc |-> "idle", installed_apps |-> <<>>, behavioral_data |-> [is_none |-> TRUE, items |-> <<>>],
     apps_lower |-> <<>>, category |-> 0,
     discriminator_scores |-> discriminator_start, neutral_scores |-> neutral_start,
     raised |-> "", returned |-> <<>>]

Init ==
    /\ neutral_apps = NEUTRAL_APPS
    /\ tier_discriminators = TIER_DISCRIMINATORS
    /\ neutral_behavior_weights = NEUTRAL_BEHAVIOR_WEIGHTS
    /\ discriminator_weights = DISCRIMINATOR_WEIGHTS
    /\ calls = <<>>
    /\ resolutions = <<>>
    /\ workers = [w \in WORKERS |-> IDLE]

(***************************************************************************)
(* The inputs of the calls                                                 *)
(***************************************************************************)
\* app names as the callers write them (src/app.py, the example of __main__)
cred == <<"c","r","e","d">>
zerodha == <<"z","e","r","o","d","h","a">>
groww == <<"g","r","o","w","w">>
airbnb == <<"a","i","r","b","n","b">>
urban_company == <<"u","r","b","a","n","_","c","o","m","p","a","n","y">>
linkedin_premium == <<"l","i","n","k","e","d","i","n","_","p","r","e","m","i","u","m">>
meesho == <<"m","e","e","s","h","o">>
unacademy == <<"u","n","a","c","a","d","e","m","y">>
sharechat == <<"s","h","a","r","e","c","h","a","t">>
ludo_king == <<"l","u","d","o","_","k","i","n","g">>
kreditbee == <<"k","r","e","d","i","t","b","e","e">>
cashbean == <<"c","a","s","h","b","e","a","n">>
moj == <<"m","o","j">>
zomato == <<"z","o","m","a","t","o">>
swiggy == <<"s","w","i","g","g","y">>
blinkit == <<"b","l","i","n","k","i","t">>
paytm == <<"p","a","y","t","m">>
flipkart == <<"f","l","i","p","k","a","r","t">>
youtube == <<"y","o","u","t","u","b","e">>
instagram == <<"i","n","s","t","a","g","r","a","m">>
netflix == <<"n","e","t","f","l","i","x">>
reddit == <<"r","e","d","d","i","t">>
\* spellings a user types for the same apps, and a name of no category
CRED_UPPER == <<"C","R","E","D">>
CRED_TITLE == <<"C","r","e","d">>
URBAN_COMPANY_TYPED == <<"U","r","b","a","n"," ","C","o","m","p","a","n","y">>
URBAN_COMPANY_UPPER == <<"U","R","B","A","N","_","C","O","M","P","A","N","Y">>
ZOMATO_TITLE == <<"Z","o","m","a","t","o">>
TIK_TOK_TYPED == <<"T","i","k"," ","T","o","k">>
tik_tok == <<"t","i","k","_","t","o","k">>

\* an entry of installed_apps that is a str, and three that are not: the float
\* NaN that df['apps'].tolist() gives for an empty CSV cell, None, and a bytes
Str(chars) == [type |-> "str", chars |-> chars]
NAN_ENTRY == [type |-> "float", chars |-> <<>>]
NONE_ENTRY == [type |-> "NoneType", chars |-> <<>>]
BYTES_ENTRY == [type |-> "bytes", chars |-> <<"c","r","e","d">>]

\* a list of str entries
Strs(names) == [i \in 1..Len(names) |-> Str(names[i])]

\* behavioral_data: None, or a dict
NONE_DATA == [is_none |-> TRUE, items |-> <<>>]
Dict(items) == [is_none |-> FALSE, items |-> items]

\* the sample profiles of src/app.py
PROFILE_PREMIUM ==
    [apps |-> Strs(<<netflix, zerodha, airbnb, urban_company, linkedin_premium, cred>>),
     usage |-> Dict((<<"z","o","m","a","t","o","_","o","r","d","e","r","s","_","p","e","r","_","m","o","n","t","h">> :> 12) @@ (<<"z","o","m","a","t","o","_","a","v","g","_","o","r","d","e","r","_","v","a","l","u","e">> :> 450) @@ (<<"p","a","y","t","m","_","t","x","n","_","a","v","g","_","v","a","l","u","e">> :> 800))]
PROFILE_STANDARD ==
    [apps |-> Strs(<<paytm, flipkart, youtube, instagram, unacademy, meesho>>),
     usage |-> Dict((<<"z","o","m","a","t","o","_","o","r","d","e","r","s","_","p","e","r","_","m","o","n","t","h">> :> 6) @@ (<<"z","o","m","a","t","o","_","a","v","g","_","o","r","d","e","r","_","v","a","l","u","e">> :> 250) @@ (<<"p","a","y","t","m","_","t","x","n","_","a","v","g","_","v","a","l","u","e">> :> 400))]
PROFILE_BUDGET ==
    [apps |-> Strs(<<meesho, sharechat, ludo_king, kreditbee, cashbean, moj>>),
     usage |-> Dict((<<"z","o","m","a","t","o","_","o","r","d","e","r","s","_","p","e","r","_","m","o","n","t","h">> :> 3) @@ (<<"z","o","m","a","t","o","_","a","v","g","_","o","r","d","e","r","_","v","a","l","u","e">> :> 150) @@ (<<"p","a","y","t","m","_","t","x","n","_","a","v","g","_","v","a","l","u","e">> :> 200))]

\* the example of __main__ in src/app_tier_classifier.py
MAIN_SAMPLE ==
    [apps |-> Strs(<<zomato, urban_company, blinkit, instagram, reddit, unacademy, paytm>>),
     usage |-> Dict((<<"z","o","m","a","t","o","_","o","r","d","e","r","s","_","p","e","r","_","m","o","n","t","h">> :> 8) @@ (<<"z","o","m","a","t","o","_","a","v","g","_","o","r","d","e","r","_","v","a","l","u","e">> :> 350) @@ (<<"b","l","i","n","k","i","t","_","o","r","d","e","r","s","_","p","e","r","_","m","o","n","t","h">> :> 6) @@ (<<"b","l","i","n","k","i","t","_","a","v","g","_","o","r","d","e","r","_","v","a","l","u","e">> :> 280) @@ (<<"p","a","y","t","m","_","t","x","n","_","c","o","u","n","t">> :> 15) @@ (<<"p","a","y","t","m","_","t","x","n","_","a","v","g","_","v","a","l","u","e">> :> 400))]

\* the usage of the docstring example: 8 orders a month at 350 each
ZOMATO_USAGE == Dict((<<"z","o","m","a","t","o","_","o","r","d","e","r","s","_","p","e","r","_","m","o","n","t","h">> :> 8) @@ (<<"z","o","m","a","t","o","_","a","v","g","_","o","r","d","e","r","_","v","a","l","u","e">> :> 350))
\* a usage whose behavioral score is 0.99996
ZOMATO_EDGE_USAGE == Dict((<<"z","o","m","a","t","o","_","o","r","d","e","r","s","_","p","e","r","_","m","o","n","t","h">> :> 19) @@ (<<"z","o","m","a","t","o","_","a","v","g","_","o","r","d","e","r","_","v","a","l","u","e">> :> 49) @@ (<<"z","o","m","a","t","o","_","m","o","n","t","h","l","y","_","s","p","e","n","d">> :> 12))

\* the inputs of the first call of a run
FIRST_INPUTS ==
    { PROFILE_PREMIUM, PROFILE_STANDARD, PROFILE_BUDGET, MAIN_SAMPLE,
      [apps |-> <<>>, usage |-> NONE_DATA],
      [apps |-> <<>>, usage |-> ZOMATO_USAGE],
      [apps |-> Strs(<<reddit>>), usage |-> Dict(<<>>)],
      [apps |-> Strs(<<reddit, TIK_TOK_TYPED>>), usage |-> ZOMATO_USAGE],
      [apps |-> Strs(<<cred, zerodha>>), usage |-> NONE_DATA],
      [apps |-> Strs(<<cred, zerodha>>), usage |-> Dict(<<>>)],
      [apps |-> Strs(<<zomato>>), usage |-> ZOMATO_USAGE],
      [apps |-> Strs(<<zomato>>), usage |-> NONE_DATA],
      [apps |-> Strs(<<cred, zerodha, zomato>>), usage |-> ZOMATO_EDGE_USAGE],
      [apps |-> Strs(<<cred, zerodha, groww, airbnb, zomato>>), usage |-> ZOMATO_USAGE] }

\* the entries a later call adds to the list of an earlier one
MORE_ENTRIES ==
    { Str(cred), Str(CRED_UPPER), Str(groww), Str(URBAN_COMPANY_TYPED),
      Str(meesho), Str(sharechat), Str(zomato), Str(swiggy), Str(netflix),
      Str(TIK_TOK_TYPED), NAN_ENTRY, BYTES_ENTRY }

\* spellings of one name: the members of a set differ in letter case and in
\* space against underscore only
SPELLINGS ==
    { {cred, CRED_UPPER, CRED_TITLE},
      {urban_company, URBAN_COMPANY_TYPED, URBAN_COMPANY_UPPER},
      {zomato, ZOMATO_TITLE},
      {tik_tok, TIK_TOK_TYPED} }

(***************************************************************************)
(* The calls                                                               *)
(***************************************************************************)
\* one call of analyze_apps_with_behavior, from entry to return or raise
Call(installed_apps, behavioral_data) ==
    LET outcome == analyze_apps_with_behavior(installed_apps, behavioral_data)
    IN  /\ Len(calls) < MaxCalls
        /\ calls' = Append(calls, [installed_apps |-> installed_apps,
                                   behavioral_data |-> behavioral_data,
                                   raised |-> outcome.raised,
                                   steps |-> outcome.steps,
                                   returned |-> outcome.returned])
        /\ UNCHANGED <<neutral_apps, tier_discriminators, neutral_behavior_weights,
                       discriminator_weights, resolutions, workers>>

\* the first call on a new classifier
AnalyzeFirst ==
    /\ calls = <<>>
    /\ \E input \in FIRST_INPUTS : Call(input.apps, input.usage)

\* a call with one more entry than the latest call, and the same usage
AnalyzeAppended ==
    /\ calls /= <<>>
    /\ \E entry \in MORE_ENTRIES :
          Call(Append(calls[Len(calls)].installed_apps, entry),
               calls[Len(calls)].behavioral_data)

\* a call with one entry of the latest call spelled another way
AnalyzeRespelled ==
    /\ calls /= <<>>
    /\ LET latest == calls[Len(calls)]
       IN  \E i \in 1..Len(latest.installed_apps) :
           \E spellings \in SPELLINGS :
           \E typed \in spellings :
              /\ latest.installed_apps[i].type = "str"
              /\ latest.installed_apps[i].chars \in spellings
              /\ typed /= latest.installed_apps[i].chars
              /\ Call([latest.installed_apps EXCEPT ![i] = Str(typed)],
                      latest.behavioral_data)

\* a call with the input of an earlier call
AnalyzeAgain ==
    \E k \in 1..Len(calls) :
        Call(calls[k].installed_apps, calls[k].behavioral_data)

Next ==
    \/ AnalyzeFirst
    \/ AnalyzeAppended
    \/ AnalyzeRespelled
    \/ AnalyzeAgain

Spec == Init /\ [][Next]_vars

(***************************************************************************)
(* The tier resolvers alone                                                *)
(***************************************************************************)
\* the scores given to a resolver: the thresholds, their neighbours one
\* millionth away, and scores inside and outside the three intervals
SCORES ==
    { -(1000 * Milli), 0, 1000 * Milli, 1500 * Milli - 1, 1500 * Milli,
      1500 * Milli + 1, 2750 * Milli, 4000 * Milli - 1, 4000 * Milli,
      4000 * Milli + 1, 6000 * Milli }

\* _get_spending_tier(score) called on its own
ResolveSpending ==
    /\ Len(resolutions) < MaxResolutions
    /\ \E score \in SCORES :
          resolutions' = Append(resolutions,
                                [axis |-> "spending", score |-> score,
                                 label |-> _get_spending_tier(score)])
    /\ UNCHANGED <<neutral_apps, tier_discriminators, neutral_behavior_weights,
                   discriminator_weights, calls, workers>>

\* the scores given to the geographic resolver: 0.3 and 0.8, their neighbours
\* one millionth below, a negative score and scores inside the intervals
GEOGRAPHIC_SCORES ==
    { -(500 * Milli), 300 * Milli - 1, 300 * Milli, 550 * Milli,
      800 * Milli - 1, 800 * Milli, 1200 * Milli }

\* _get_geographic_tier(score) called on its own
ResolveGeographic ==
    /\ Len(resolutions) < MaxResolutions
    /\ \E score \in GEOGRAPHIC_SCORES :
          resolutions' = Append(resolutions,
                                [axis |-> "geographic", score |-> score,
                                 label |-> _get_geographic_tier(score)])
    /\ UNCHANGED <<neutral_apps, tier_discriminators, neutral_behavior_weights,
                   discriminator_weights, calls, workers>>

\* the scores given to the lifestyle resolver: 0.2 and 0.6, their neighbours
\* one millionth below, a negative score and scores inside the intervals
LIFESTYLE_SCORES ==
    { -(300 * Milli), 200 * Milli - 1, 200 * Milli, 400 * Milli,
      600 * Milli - 1, 600 * Milli, 900 * Milli }

\* _get_lifestyle_category(score) called on its own
ResolveLifestyle ==
    /\ Len(resolutions) < MaxResolutions
    /\ \E score \in LIFESTYLE_SCORES :
          resolutions' = Append(resolutions,
                                [axis |-> "lifestyle", score |-> score,
                                 label |-> _get_lifestyle_category(score)])
    /\ UNCHANGED <<neutral_apps, tier_discriminators, neutral_behavior_weights,
                   discriminator_weights, calls, workers>>

NextTiers ==
    \/ ResolveSpending
    \/ ResolveGeographic
    \/ ResolveLifestyle

SpecTiers == Init /\ [][NextTiers]_vars

(***************************************************************************)
(* The calls that vary the usage mapping and the neutral apps              *)
(***************************************************************************)
uber == <<"u","b","e","r">>
irctc == <<"i","r","c","t","c">>

\* usage mappings with each subset of the three keys of zomato, with a figure
\* entered as 0, and with figures of an app that is not the proxy
ZOMATO_FREQUENCY_ONLY ==
    Dict((<<"z","o","m","a","t","o","_","o","r","d","e","r","s","_","p","e","r","_","m","o","n","t","h">> :> 12))
ZOMATO_AOV_ONLY ==
    Dict((<<"z","o","m","a","t","o","_","a","v","g","_","o","r","d","e","r","_","v","a","l","u","e">> :> 350))
ZOMATO_SPEND_ONLY ==
    Dict((<<"z","o","m","a","t","o","_","m","o","n","t","h","l","y","_","s","p","e","n","d">> :> 3000))
ZOMATO_NO_ORDERS ==
    Dict((<<"z","o","m","a","t","o","_","o","r","d","e","r","s","_","p","e","r","_","m","o","n","t","h">> :> 0)
         @@ (<<"z","o","m","a","t","o","_","a","v","g","_","o","r","d","e","r","_","v","a","l","u","e">> :> 350))
SWIGGY_USAGE ==
    Dict((<<"s","w","i","g","g","y","_","o","r","d","e","r","s","_","p","e","r","_","m","o","n","t","h">> :> 20)
         @@ (<<"s","w","i","g","g","y","_","a","v","g","_","o","r","d","e","r","_","v","a","l","u","e">> :> 100))
PAYTM_USAGE ==
    Dict((<<"p","a","y","t","m","_","o","r","d","e","r","s","_","p","e","r","_","m","o","n","t","h">> :> 15)
         @@ (<<"p","a","y","t","m","_","a","v","g","_","o","r","d","e","r","_","v","a","l","u","e">> :> 300)
         @@ (<<"p","a","y","t","m","_","m","o","n","t","h","l","y","_","s","p","e","n","d">> :> 6000))

USAGES ==
    { NONE_DATA, Dict(<<>>), ZOMATO_USAGE, ZOMATO_FREQUENCY_ONLY, ZOMATO_AOV_ONLY,
      ZOMATO_SPEND_ONLY, ZOMATO_NO_ORDERS, SWIGGY_USAGE, PAYTM_USAGE }

\* the lists of the first call: neutral apps in and against the order of their
\* category, alone and next to discriminator apps
NEUTRAL_LISTS ==
    { Strs(<<zomato>>), Strs(<<swiggy>>), Strs(<<swiggy, zomato>>),
      Strs(<<zomato, swiggy>>), Strs(<<paytm, uber, cred>>),
      Strs(<<netflix, instagram>>), Strs(<<sharechat, moj>>), <<>> }

\* the entries a later call adds: apps of weighted and of unweighted neutral
\* categories
NEUTRAL_ENTRIES ==
    { Str(zomato), Str(swiggy), Str(paytm), Str(irctc), Str(instagram),
      Str(netflix) }
\* the first call of a run, on a list of neutral apps, without usage data or
\* with the figures of swiggy
AnalyzeNeutralFirst ==
    /\ calls = <<>>
    /\ \E installed_apps \in NEUTRAL_LISTS :
       \E behavioral_data \in {NONE_DATA, SWIGGY_USAGE} :
          Call(installed_apps, behavioral_data)

\* a call with the list of the latest call and another usage mapping
AnalyzeWithUsage ==
    /\ calls /= <<>>
    /\ \E behavioral_data \in USAGES :
          /\ behavioral_data /= calls[Len(calls)].behavioral_data
          /\ Call(calls[Len(calls)].installed_apps, behavioral_data)

\* a call with one more neutral app than the latest call, and the same usage
AnalyzeWithNeutral ==
    /\ calls /= <<>>
    /\ \E entry \in NEUTRAL_ENTRIES :
          Call(Append(calls[Len(calls)].installed_apps, entry),
               calls[Len(calls)].behavioral_data)

\* a call with the list of the latest call in the reverse order, and the same
\* usage
AnalyzeReversed ==
    /\ calls /= <<>>
    /\ LET latest == calls[Len(calls)].installed_apps
       IN  /\ Len(latest) > 1
           /\ Call([n \in 1..Len(latest) |-> latest[Len(latest) + 1 - n]],
                   calls[Len(calls)].behavioral_data)

NextUsage ==
    \/ AnalyzeNeutralFirst
    \/ AnalyzeWithUsage
    \/ AnalyzeWithNeutral
    \/ AnalyzeReversed

SpecUsage == Init /\ [][NextUsage]_vars

(***************************************************************************)
(* Concurrent calls on one classifier                                      *)
(***************************************************************************)
\* the inputs of the workers: lists that score on different categories, and
\* one that normalization fails on
WORKER_INPUTS ==
    { MAIN_SAMPLE, PROFILE_BUDGET,
      [apps |-> Strs(<<cred, zerodha, swiggy, zomato>>), usage |-> ZOMATO_USAGE],
      [apps |-> <<Str(cred), NAN_ENTRY>>, usage |-> NONE_DATA] }

\* the accumulators of a shared frame: scores, matched_apps and neutral_usage
\* kept in one place for all the calls, here the place of the first worker
accumulators_of_classifier(w) ==
    workers[CHOOSE v \in WORKERS : \A u \in WORKERS : v <= u]

\* scores, matched_apps and neutral_usage are locals of the analyzers (lines
\* 140-141, 160-161): each call reads and writes its own
accumulators(w) == workers[w]

\* a worker enters analyze_apps_with_behavior
Enter(w) ==
    /\ workers[w].pc = "idle"
    /\ \E input \in WORKER_INPUTS :
          workers' = [workers EXCEPT ![w] =
                         [IDLE EXCEPT !.pc = "normalize",
                                      !.installed_apps = input.apps,
                                      !.behavioral_data = input.usage]]
    /\ UNCHANGED <<neutral_apps, tier_discriminators, neutral_behavior_weights,
                   discriminator_weights, calls, resolutions>>

\* line 104: the list comprehension, which raises or gives apps_lower
Normalize(w) ==
    /\ workers[w].pc = "normalize"
    /\ workers' = [workers EXCEPT ![w] =
          IF normalize_error(workers[w].installed_apps) /= ""
          THEN [@ EXCEPT !.pc = "raised",
                         !.raised = normalize_error(workers[w].installed_apps)]
          ELSE [@ EXCEPT !.pc = "_analyze_discriminators",
                         !.apps_lower = normalize(workers[w].installed_apps),
                         !.category = 1,
                         !.discriminator_scores = discriminator_start]]
    /\ UNCHANGED <<neutral_apps, tier_discriminators, neutral_behavior_weights,
                   discriminator_weights, calls, resolutions>>

\* one pass of the loop of lines 143-153, then the next category or the
\* neutral analyzer
DiscriminatorStep(w) ==
    /\ workers[w].pc = "_analyze_discriminators"
    /\ LET i == workers[w].category
           scores == discriminator_pass(i, workers[w].apps_lower,
                                        accumulators(w).discriminator_scores)
       IN  workers' = [workers EXCEPT ![w] =
              IF i < Len(DISCRIMINATOR_CATEGORIES)
              THEN [@ EXCEPT !.discriminator_scores = scores, !.category = i + 1]
              ELSE [@ EXCEPT !.discriminator_scores = scores,
                             !.pc = "_analyze_neutral_apps",
                             !.category = 1,
                             !.neutral_scores = neutral_start]]
    /\ UNCHANGED <<neutral_apps, tier_discriminators, neutral_behavior_weights,
                   discriminator_weights, calls, resolutions>>

\* one pass of the loop of lines 167-199, then the next category or the rest
\* of the call
NeutralStep(w) ==
    /\ workers[w].pc = "_analyze_neutral_apps"
    /\ LET i == workers[w].category
           scores == neutral_pass(i, workers[w].apps_lower,
                                  usage_items(workers[w].behavioral_data),
                                  accumulators(w).neutral_scores)
       IN  workers' = [workers EXCEPT ![w] =
              IF i < Len(NEUTRAL_CATEGORIES)
              THEN [@ EXCEPT !.neutral_scores = scores, !.category = i + 1]
              ELSE [@ EXCEPT !.neutral_scores = scores, !.pc = "resolve"]]
    /\ UNCHANGED <<neutral_apps, tier_discriminators, neutral_behavior_weights,
                   discriminator_weights, calls, resolutions>>

\* lines 112-136: the sums, the tiers, the confidence, and the return
Return(w) ==
    /\ workers[w].pc = "resolve"
    /\ workers' = [workers EXCEPT ![w] =
          [@ EXCEPT !.pc = "returned",
                    !.returned = <<analysis_result(accumulators(w).discriminator_scores,
                                                   accumulators(w).neutral_scores)>>]]
    /\ UNCHANGED <<neutral_apps, tier_discriminators, neutral_behavior_weights,
                   discriminator_weights, calls, resolutions>>

NextWorkers ==
    \E w \in WORKERS :
        \/ Enter(w)
        \/ Normalize(w)
        \/ DiscriminatorStep(w)
        \/ NeutralStep(w)
        \/ Return(w)

SpecWorkers == Init /\ [][NextWorkers]_vars

(***************************************************************************)
(* The caller and the lists of the report                                  *)
(***************************************************************************)
\* a name a caller adds to a list of the report it holds
CALLER_NAME == tik_tok

\* the inputs of a caller: a list that scores on both kinds of apps, and one
\* that normalization fails on
CALLER_INPUTS ==
    { [apps |-> Strs(<<cred, zerodha, swiggy, zomato>>), usage |-> ZOMATO_USAGE],
      [apps |-> <<Str(cred), NAN_ENTRY>>, usage |-> NONE_DATA] }

\* a call of a caller
AnalyzeForCaller ==
    \E input \in CALLER_INPUTS : Call(input.apps, input.usage)

\* The caller appends a name to matched_apps[category] of the latest report.
\* The list object is changed: when it is the list of the table, the table
\* changes with it.
MutateMatchedApps ==
    /\ calls /= <<>>
    /\ calls[Len(calls)].returned /= <<>>
    /\ \E category \in DOMAIN calls[Len(calls)].returned[1].discriminator_analysis.matched_apps :
          LET matches ==
                  calls[Len(calls)].returned[1].discriminator_analysis.matched_apps[category]
          IN  /\ ~list_contains(matches, CALLER_NAME)
              /\ calls' = [calls EXCEPT ![Len(calls)].returned[1].discriminator_analysis
                                            .matched_apps[category] = Append(@, CALLER_NAME)]
              /\ IF list_owner(tier_discriminators[category], matches) = "table"
                 THEN tier_discriminators' =
                         [tier_discriminators EXCEPT ![category] = Append(@, CALLER_NAME)]
                 ELSE UNCHANGED tier_discriminators
    /\ UNCHANGED <<neutral_apps, neutral_behavior_weights, discriminator_weights,
                   resolutions, workers>>

\* The caller appends a name to usage_patterns[category]['apps'] of the latest
\* report.
MutateUsageApps ==
    /\ calls /= <<>>
    /\ calls[Len(calls)].returned /= <<>>
    /\ \E category \in DOMAIN calls[Len(calls)].returned[1].neutral_analysis.usage_patterns :
          LET matches ==
                  calls[Len(calls)].returned[1].neutral_analysis.usage_patterns[category].apps
          IN  /\ ~list_contains(matches, CALLER_NAME)
              /\ calls' = [calls EXCEPT ![Len(calls)].returned[1].neutral_analysis
                                            .usage_patterns[category].apps = Append(@, CALLER_NAME)]
              /\ IF list_owner(neutral_apps[category], matches) = "table"
                 THEN neutral_apps' = [neutral_apps EXCEPT ![category] = Append(@, CALLER_NAME)]
                 ELSE UNCHANGED neutral_apps
    /\ UNCHANGED <<tier_discriminators, neutral_behavior_weights, discriminator_weights,
                   resolutions, workers>>

NextCaller ==
    \/ AnalyzeForCaller
    \/ MutateMatchedApps
    \/ MutateUsageApps

SpecCaller == Init /\ [][NextCaller]_vars

(***************************************************************************)
(* The calls that vary one input at a time                                 *)
(***************************************************************************)
\* heavy use of zomato: 40 orders a month of 500 each
ZOMATO_HEAVY_USAGE ==
    Dict((<<"z","o","m","a","t","o","_","o","r","d","e","r","s","_","p","e","r","_","m","o","n","t","h">> :> 40)
         @@ (<<"z","o","m","a","t","o","_","a","v","g","_","o","r","d","e","r","_","v","a","l","u","e">> :> 500))

\* figures keyed by a discriminator app
CRED_USAGE ==
    Dict((<<"c","r","e","d","_","o","r","d","e","r","s","_","p","e","r","_","m","o","n","t","h">> :> 30)
         @@ (<<"c","r","e","d","_","a","v","g","_","o","r","d","e","r","_","v","a","l","u","e">> :> 5000)
         @@ (<<"c","r","e","d","_","m","o","n","t","h","l","y","_","s","p","e","n","d">> :> 150000))

\* the figures of paytm with the two transaction keys of the form
\* (src/app.py, lines 145-151)
PAYTM_TXN_USAGE ==
    Dict((<<"p","a","y","t","m","_","o","r","d","e","r","s","_","p","e","r","_","m","o","n","t","h">> :> 15)
         @@ (<<"p","a","y","t","m","_","a","v","g","_","o","r","d","e","r","_","v","a","l","u","e">> :> 300)
         @@ (<<"p","a","y","t","m","_","m","o","n","t","h","l","y","_","s","p","e","n","d">> :> 6000)
         @@ (<<"p","a","y","t","m","_","t","x","n","_","c","o","u","n","t">> :> 25)
         @@ (<<"p","a","y","t","m","_","t","x","n","_","a","v","g","_","v","a","l","u","e">> :> 800))

\* the figures of paytm with the values the form proposes for the two
\* transaction keys (src/app.py, lines 146-147)
PAYTM_TXN_DEFAULTS ==
    Dict((<<"p","a","y","t","m","_","o","r","d","e","r","s","_","p","e","r","_","m","o","n","t","h">> :> 15)
         @@ (<<"p","a","y","t","m","_","a","v","g","_","o","r","d","e","r","_","v","a","l","u","e">> :> 300)
         @@ (<<"p","a","y","t","m","_","m","o","n","t","h","l","y","_","s","p","e","n","d">> :> 6000)
         @@ (<<"p","a","y","t","m","_","t","x","n","_","c","o","u","n","t">> :> 10)
         @@ (<<"p","a","y","t","m","_","t","x","n","_","a","v","g","_","v","a","l","u","e">> :> 300))

\* the inputs of the first call: a neutral app used heavily and used
\* moderately, tier-A apps with a neutral app, neutral apps of two
\* categories with a tier-A app, apps of one category out of their declared
\* order, the empty list, and a list with two entries that are not str
VARIANT_INPUTS ==
    { [apps |-> Strs(<<zomato>>), usage |-> ZOMATO_HEAVY_USAGE],
      [apps |-> Strs(<<zomato>>), usage |-> ZOMATO_USAGE],
      [apps |-> Strs(<<cred, zerodha, groww, zomato>>), usage |-> ZOMATO_EDGE_USAGE],
      [apps |-> Strs(<<paytm, uber, cred>>), usage |-> PAYTM_USAGE],
      [apps |-> Strs(<<swiggy, moj, zomato, sharechat>>), usage |-> SWIGGY_USAGE],
      [apps |-> <<>>, usage |-> NONE_DATA],
      [apps |-> <<NAN_ENTRY, Str(cred), BYTES_ENTRY>>, usage |-> NONE_DATA] }

\* the entries a later call adds: tier-C apps, a tier-A app, neutral apps of
\* two weighted categories and of an unweighted one, and an app of no category
VARIANT_ENTRIES ==
    { Str(sharechat), Str(ludo_king), Str(cred), Str(swiggy), Str(paytm),
      Str(instagram), Str(tik_tok) }

\* the usage mappings a later call gives
VARIANT_USAGES ==
    { NONE_DATA, ZOMATO_USAGE, SWIGGY_USAGE, PAYTM_USAGE, PAYTM_TXN_USAGE,
      PAYTM_TXN_DEFAULTS, CRED_USAGE }

\* the first call of a run
AnalyzeVariantFirst ==
    /\ calls = <<>>
    /\ \E input \in VARIANT_INPUTS : Call(input.apps, input.usage)

\* a call with one more entry than the latest call, and the same usage
AnalyzeWithEntry ==
    /\ calls /= <<>>
    /\ \E entry \in VARIANT_ENTRIES :
          Call(Append(calls[Len(calls)].installed_apps, entry),
               calls[Len(calls)].behavioral_data)

\* a call with the list of the latest call and another usage mapping
AnalyzeWithOtherUsage ==
    /\ calls /= <<>>
    /\ \E behavioral_data \in VARIANT_USAGES :
          /\ behavioral_data /= calls[Len(calls)].behavioral_data
          /\ Call(calls[Len(calls)].installed_apps, behavioral_data)

NextVariants ==
    \/ AnalyzeVariantFirst
    \/ AnalyzeWithEntry
    \/ AnalyzeWithOtherUsage

SpecVariants == Init /\ [][NextVariants]_vars

(***************************************************************************)
(* The calls that vary the order of the list                               *)
(***************************************************************************)
\* the inputs of the first call: two neutral apps of one category and two
\* tier-C apps, each pair against its declared order, with figures of either
\* neutral app; a list with an app more than once; and a list with two
\* entries of different types that are not str
ORDER_INPUTS ==
    { [apps |-> Strs(<<swiggy, moj, zomato, sharechat>>), usage |-> SWIGGY_USAGE],
      [apps |-> Strs(<<swiggy, moj, zomato, sharechat>>), usage |-> ZOMATO_USAGE],
      [apps |-> Strs(<<zerodha, CRED_UPPER, cred>>), usage |-> NONE_DATA],
      [apps |-> <<NAN_ENTRY, Str(cred), BYTES_ENTRY>>, usage |-> NONE_DATA] }

\* the orders of a list
PermutationsOf(xs) ==
    { [n \in 1..Len(xs) |-> xs[p[n]]] :
        p \in {q \in [1..Len(xs) -> 1..Len(xs)] :
                  \A m, n \in 1..Len(xs) : q[m] = q[n] => m = n} }

\* the first call of a run
AnalyzeOrderFirst ==
    /\ calls = <<>>
    /\ \E input \in ORDER_INPUTS : Call(input.apps, input.usage)

\* a call with the list of the latest call in another order, and the same usage
AnalyzePermuted ==
    /\ calls /= <<>>
    /\ \E installed_apps \in PermutationsOf(calls[Len(calls)].installed_apps) :
          /\ installed_apps /= calls[Len(calls)].installed_apps
          /\ Call(installed_apps, calls[Len(calls)].behavioral_data)

NextOrder ==
    \/ AnalyzeOrderFirst
    \/ AnalyzePermuted

SpecOrder == Init /\ [][NextOrder]_vars

(***************************************************************************)
(* Properties                                                              *)
(***************************************************************************)
\* two characters that are the same letter in either case, or a space and an
\* underscore
SameCharacter(a, b) ==
    \/ a = b
    \/ \E i \in 1..Len(UPPERCASE) : {a, b} = {UPPERCASE[i], LOWERCASE[i]}
    \/ {a, b} = {" ", "_"}

\* two names that differ in letter case and in space against underscore only
SameSpelling(s, t) ==
    /\ Len(s) = Len(t)
    /\ \A i \in 1..Len(s) : SameCharacter(s[i], t[i])

\* the names of a list of the taxonomy, and of a whole table
NamesOf(apps) == {apps[i] : i \in 1..Len(apps)}
AllNamesOf(table) == UNION {NamesOf(table[category]) : category \in DOMAIN table}

\* the entry names an app of the list
NamesOneOf(entry, apps) ==
    /\ entry.type = "str"
    /\ \E name \in NamesOf(apps) : SameSpelling(entry.chars, name)

\* the entry names an app of some neutral or discriminator category
Known(entry) ==
    /\ entry.type = "str"
    /\ \E name \in AllNamesOf(NEUTRAL_APPS) \cup AllNamesOf(TIER_DISCRIMINATORS) :
          SameSpelling(entry.chars, name)

AllStr(installed_apps) ==
    \A i \in 1..Len(installed_apps) : installed_apps[i].type = "str"

\* the call has no usage data: None, or an empty mapping
NoUsage(call) == call.behavioral_data.is_none \/ DOMAIN call.behavioral_data.items = {}

TIER_3_CITY == "Tier 3 City (Smaller cities and towns)"
TIER_2_CITY == "Tier 2 City (Pune, Hyderabad, Chennai, etc.)"
TIER_1_CITY == "Tier 1 City (Mumbai, Delhi, Bangalore, etc.)"

\* C1: a call whose list holds no app of any neutral or discriminator category
\* (the empty list too), whatever its usage mapping, returns the scores 0, 0, 0,
\* the confidence 0 and the lowest bucket of each axis.
C1_NoKnownApps ==
    \A k \in 1..Len(calls) :
        LET call == calls[k]
        IN  (/\ AllStr(call.installed_apps)
             /\ \A i \in 1..Len(call.installed_apps) : ~Known(call.installed_apps[i]))
            => /\ call.raised = ""
               /\ Len(call.returned) = 1
               /\ call.returned[1].spending_score = 0
               /\ call.returned[1].geographic_score = 0
               /\ call.returned[1].lifestyle_score = 0
               /\ call.returned[1].confidence = 0
               /\ call.returned[1].spending_tier = BASIC_TIER
               /\ call.returned[1].geographic_tier = TIER_3_CITY
               /\ call.returned[1].lifestyle_category = "Basic/Conservative"

\* C1, its case: a call has returned for a list of unknown names with a usage
\* mapping that is not empty, after a call with the empty list
C1_Witness ==
    \E j, k \in 1..Len(calls) :
        /\ calls[j].installed_apps = <<>>
        /\ calls[j].returned /= <<>>
        /\ calls[k].installed_apps /= <<>>
        /\ AllStr(calls[k].installed_apps)
        /\ \A i \in 1..Len(calls[k].installed_apps) : ~Known(calls[k].installed_apps[i])
        /\ ~NoUsage(calls[k])
        /\ calls[k].returned /= <<>>

\* C2: for apps = [cred, zerodha] without usage data the discriminator totals are
\* 2.0, 1.6 and 1.6, the neutral totals are zero, the tiers are Standard, Tier 1
\* City and Professional/Urban, and the confidence is 40.0.
C2_CredZerodha ==
    \A k \in 1..Len(calls) :
        LET call == calls[k]
        IN  (call.installed_apps = Strs(<<cred, zerodha>>) /\ NoUsage(call))
            => /\ Len(call.returned) = 1
               /\ LET result == call.returned[1]
                  IN  /\ result.discriminator_analysis.spending = 2 * Unit
                      /\ result.discriminator_analysis.geographic = 1600 * Milli
                      /\ result.discriminator_analysis.lifestyle = 1600 * Milli
                      /\ result.neutral_analysis.spending = 0
                      /\ result.neutral_analysis.geographic = 0
                      /\ result.neutral_analysis.lifestyle = 0
                      /\ DOMAIN result.neutral_analysis.usage_patterns = {}
                      /\ result.spending_tier = STANDARD_TIER
                      /\ result.geographic_tier = TIER_1_CITY
                      /\ result.lifestyle_category = "Professional/Urban"
                      /\ result.confidence = 40 * Unit

\* C2, its case: the call of the scenario has returned, two tier-A apps matched
C2_Witness ==
    \E k \in 1..Len(calls) :
        /\ calls[k].installed_apps = Strs(<<cred, zerodha>>)
        /\ NoUsage(calls[k])
        /\ calls[k].returned /= <<>>
        /\ calls[k].returned[1].discriminator_analysis.matched_apps.tier_a_premium
              = <<cred, zerodha>>

\* the call of the scenario of C3: apps = [zomato], 8 orders a month at 350
ZomatoScenario(call) ==
    /\ call.installed_apps = Strs(<<zomato>>)
    /\ call.behavioral_data = ZOMATO_USAGE

\* C3 as stated: in the zomato scenario all three tiers are the lowest bucket.
C3_AllLowest ==
    \A k \in 1..Len(calls) :
        ZomatoScenario(calls[k])
        => /\ Len(calls[k].returned) = 1
           /\ calls[k].returned[1].spending_tier = BASIC_TIER
           /\ calls[k].returned[1].geographic_tier = TIER_3_CITY
           /\ calls[k].returned[1].lifestyle_category = "Basic/Conservative"

\* C3, amended: in the zomato scenario the neutral totals are 0.974, 0.487 and
\* 0.2922; the spending tier is Basic, the geographic tier is Tier 2 City
\* (0.487 >= 0.3) and the lifestyle category is Entertainment/Social
\* (0.2922 >= 0.2).
C3_ZomatoTiers ==
    \A k \in 1..Len(calls) :
        ZomatoScenario(calls[k])
        => /\ Len(calls[k].returned) = 1
           /\ LET result == calls[k].returned[1]
              IN  /\ result.neutral_analysis.spending = 974 * Milli
                  /\ result.neutral_analysis.geographic = 487 * Milli
                  /\ result.neutral_analysis.lifestyle = 292200
                  /\ result.spending_tier = BASIC_TIER
                  /\ result.geographic_tier = TIER_2_CITY
                  /\ result.lifestyle_category = "Entertainment/Social"

\* C3, its case: the call of the scenario has returned
C3_Witness ==
    \E k \in 1..Len(calls) :
        /\ ZomatoScenario(calls[k])
        /\ calls[k].returned /= <<>>
        /\ calls[k].returned[1].discriminator_analysis.spending = 0

\* C4: the spending resolver gives every score exactly one label: Premium iff
\* score >= 4.0, Standard iff 1.5 <= score < 4.0, Basic iff score < 1.5.
C4_SpendingTier ==
    \A k \in 1..Len(resolutions) :
        LET score == resolutions[k].score
            label == resolutions[k].label
        IN  resolutions[k].axis = "spending"
            => /\ (label = PREMIUM_TIER) <=> (score >= 4 * Unit)
               /\ (label = STANDARD_TIER) <=> (score >= 1500 * Milli /\ score < 4 * Unit)
               /\ (label = BASIC_TIER) <=> (score < 1500 * Milli)
               /\ Cardinality({l \in {PREMIUM_TIER, STANDARD_TIER, BASIC_TIER} :
                                 l = label}) = 1

\* C4, its case: 4.0 has resolved to Premium, 3.999999 to Standard and 1.5 to
\* Standard
C4_Witness ==
    \E i, j, k \in 1..Len(resolutions) :
        /\ resolutions[i].score = 4 * Unit
        /\ resolutions[i].label = PREMIUM_TIER
        /\ resolutions[j].score = 4 * Unit - 1
        /\ resolutions[j].label = STANDARD_TIER
        /\ resolutions[k].score = 1500 * Milli
        /\ resolutions[k].label = STANDARD_TIER

\* the total strength read from the reports of a result
ReportedStrength(result) ==
    2 * (Len(result.discriminator_analysis.matched_apps.tier_a_premium)
         + Len(result.discriminator_analysis.matched_apps.tier_b_mainstream)
         + Len(result.discriminator_analysis.matched_apps.tier_c_budget))
    + Cardinality(DOMAIN result.neutral_analysis.usage_patterns)

\* C5: the confidence is min(total_strength / 10, 1) * 100, total_strength being
\* twice the number of matched discriminator apps plus the number of neutral
\* categories of the usage report; it is 100 from total_strength 10 on.
C5_Confidence ==
    \A k \in 1..Len(calls) :
        calls[k].returned /= <<>>
        => LET result == calls[k].returned[1]
               strength == ReportedStrength(result)
           IN  /\ strength < 10 => result.confidence = strength * 10 * Unit
               /\ strength >= 10 => result.confidence = 100 * Unit

\* C5, its case: a result with a total strength above 10, made of both kinds of
\* evidence, and one with a strength below 10, of both kinds too
C5_Witness ==
    \E j, k \in 1..Len(calls) :
        /\ calls[j].returned /= <<>>
        /\ calls[k].returned /= <<>>
        /\ ReportedStrength(calls[j].returned[1]) > 10
        /\ DOMAIN calls[j].returned[1].neutral_analysis.usage_patterns /= {}
        /\ calls[j].returned[1].confidence = 100 * Unit
        /\ ReportedStrength(calls[k].returned[1]) \in 1..9
        /\ DOMAIN calls[k].returned[1].neutral_analysis.usage_patterns /= {}
        /\ calls[k].returned[1].discriminator_analysis.matched_apps.tier_a_premium /= <<>>

\* the unrounded combined spending score of a result
CombinedSpending(result) ==
    result.discriminator_analysis.spending + result.neutral_analysis.spending

\* call j has the list of call i with the entry added at its end, and its usage
Extends(i, j, entry) ==
    /\ calls[j].installed_apps = Append(calls[i].installed_apps, entry)
    /\ calls[j].behavioral_data = calls[i].behavioral_data

\* the list of the call already names the app the entry names
AlreadyIn(entry, call) ==
    \E n \in 1..Len(call.installed_apps) :
        /\ call.installed_apps[n].type = "str"
        /\ SameSpelling(call.installed_apps[n].chars, entry.chars)

\* C6: adding a tier_a_premium app to a list never lowers the spending score:
\* the combined score grows by 1.0 when the list does not name the app yet and
\* stays equal when it does.
C6_TierAMonotone ==
    \A i, j \in 1..Len(calls) :
        (/\ calls[i].returned /= <<>>
         /\ calls[j].returned /= <<>>
         /\ calls[j].installed_apps /= <<>>
         /\ Extends(i, j, calls[j].installed_apps[Len(calls[j].installed_apps)])
         /\ NamesOneOf(calls[j].installed_apps[Len(calls[j].installed_apps)],
                       TIER_DISCRIMINATORS.tier_a_premium))
        => LET before == calls[i].returned[1]
               after == calls[j].returned[1]
               added == calls[j].installed_apps[Len(calls[j].installed_apps)]
           IN  /\ after.spending_score >= before.spending_score
               /\ CombinedSpending(after) >= CombinedSpending(before)
               /\ AlreadyIn(added, calls[i])
                    => CombinedSpending(after) = CombinedSpending(before)
               /\ ~AlreadyIn(added, calls[i])
                    => CombinedSpending(after) = CombinedSpending(before) + Unit

\* C6, its case: a tier-A app was added to a list without it, and then one the
\* list had already, next to a neutral app with a behavioural score
C6_Witness ==
    \E i, j, k \in 1..Len(calls) :
        /\ calls[i].returned /= <<>> /\ calls[j].returned /= <<>> /\ calls[k].returned /= <<>>
        /\ calls[j].installed_apps /= <<>> /\ calls[k].installed_apps /= <<>>
        /\ Extends(i, j, calls[j].installed_apps[Len(calls[j].installed_apps)])
        /\ Extends(j, k, calls[k].installed_apps[Len(calls[k].installed_apps)])
        /\ NamesOneOf(calls[j].installed_apps[Len(calls[j].installed_apps)],
                      TIER_DISCRIMINATORS.tier_a_premium)
        /\ NamesOneOf(calls[k].installed_apps[Len(calls[k].installed_apps)],
                      TIER_DISCRIMINATORS.tier_a_premium)
        /\ ~AlreadyIn(calls[j].installed_apps[Len(calls[j].installed_apps)], calls[i])
        /\ AlreadyIn(calls[k].installed_apps[Len(calls[k].installed_apps)], calls[j])
        /\ calls[i].returned[1].neutral_analysis.spending > 0
        /\ CombinedSpending(calls[j].returned[1]) = CombinedSpending(calls[i].returned[1]) + Unit

HasNonStr(call) ==
    \E i \in 1..Len(call.installed_apps) : call.installed_apps[i].type /= "str"

\* the first entry of the list that is not a str
FirstNonStr(call) ==
    call.installed_apps[CHOOSE i \in 1..Len(call.installed_apps) :
        /\ call.installed_apps[i].type /= "str"
        /\ \A j \in 1..(i - 1) : call.installed_apps[j].type = "str"]

\* C8 as stated: a call whose list has an entry that is not a str fails with
\* InvalidInputError before any analyzer runs, and returns nothing.
C8_InvalidInputError ==
    \A k \in 1..Len(calls) :
        HasNonStr(calls[k])
        => /\ calls[k].raised = "InvalidInputError"
           /\ calls[k].steps = <<"normalize">>
           /\ calls[k].returned = <<>>

\* C8, amended: a call whose list has an entry that is not a str fails with the
\* exception the normalization of that entry raises (AttributeError for a
\* number or None, TypeError for a bytes object) before any analyzer runs, and
\* returns nothing.
C8_NormalizationFails ==
    \A k \in 1..Len(calls) :
        HasNonStr(calls[k])
        => /\ calls[k].raised =
                 (IF FirstNonStr(calls[k]).type = "bytes" THEN "TypeError"
                  ELSE "AttributeError")
           /\ calls[k].steps = <<"normalize">>
           /\ calls[k].returned = <<>>

\* C8, its case: a call failed on a list whose entries before the one that is
\* not a str name known apps, after a call that returned for those entries
C8_Witness ==
    \E i, j \in 1..Len(calls) :
        /\ calls[i].returned /= <<>>
        /\ calls[i].returned[1].confidence > 0
        /\ calls[j].installed_apps /= <<>>
        /\ Extends(i, j, calls[j].installed_apps[Len(calls[j].installed_apps)])
        /\ calls[j].installed_apps[Len(calls[j].installed_apps)].type = "float"
        /\ calls[j].raised = "AttributeError"

\* C9: a name of no category is ignored: the call with such a name added to the
\* list has the outcome of the call without it, and raises nothing when the
\* list is made of names.
C9_UnknownIgnored ==
    \A i, j \in 1..Len(calls) :
        (/\ calls[j].installed_apps /= <<>>
         /\ Extends(i, j, calls[j].installed_apps[Len(calls[j].installed_apps)])
         /\ calls[j].installed_apps[Len(calls[j].installed_apps)].type = "str"
         /\ ~Known(calls[j].installed_apps[Len(calls[j].installed_apps)]))
        => /\ calls[j].raised = calls[i].raised
           /\ calls[j].returned = calls[i].returned
           /\ AllStr(calls[i].installed_apps) => calls[j].raised = ""

\* C9, its case: an unknown name was added to a list that scores on
\* discriminator and on neutral apps
C9_Witness ==
    \E i, j \in 1..Len(calls) :
        /\ calls[j].installed_apps /= <<>>
        /\ Extends(i, j, calls[j].installed_apps[Len(calls[j].installed_apps)])
        /\ calls[j].installed_apps[Len(calls[j].installed_apps)].type = "str"
        /\ ~Known(calls[j].installed_apps[Len(calls[j].installed_apps)])
        /\ calls[i].returned /= <<>>
        /\ calls[j].returned /= <<>>
        /\ calls[i].returned[1].discriminator_analysis.matched_apps.tier_a_premium /= <<>>
        /\ DOMAIN calls[i].returned[1].neutral_analysis.usage_patterns /= {}

\* the two calls have lists of names that differ in spelling only (letter case,
\* space against underscore), and the same usage
SameUpToSpelling(i, j) ==
    /\ AllStr(calls[i].installed_apps)
    /\ AllStr(calls[j].installed_apps)
    /\ Len(calls[i].installed_apps) = Len(calls[j].installed_apps)
    /\ \A n \in 1..Len(calls[i].installed_apps) :
          SameSpelling(calls[i].installed_apps[n].chars, calls[j].installed_apps[n].chars)
    /\ calls[i].behavioral_data = calls[j].behavioral_data

\* C10: names are matched in lower case with underscores for spaces: two lists
\* that differ in letter case and in space against underscore only have the same
\* outcome, and the matched names are reported in the normalized spelling.
C10_Normalization ==
    \A i, j \in 1..Len(calls) :
        SameUpToSpelling(i, j)
        => /\ calls[i].raised = ""
           /\ calls[j].raised = ""
           /\ calls[i].returned = calls[j].returned

\* C10, its case: 'Urban Company' and 'urban_company' were given in two calls,
\* and both matched the tier-A app urban_company
C10_Witness ==
    \E i, j \in 1..Len(calls) :
        /\ SameUpToSpelling(i, j)
        /\ list_contains(calls[i].installed_apps, Str(urban_company))
        /\ list_contains(calls[j].installed_apps, Str(URBAN_COMPANY_TYPED))
        /\ calls[j].returned /= <<>>
        /\ list_contains(
              calls[j].returned[1].discriminator_analysis.matched_apps.tier_a_premium,
              urban_company)

\* no value stands twice in the list
NoRepeats(xs) == \A m, n \in 1..Len(xs) : xs[m] = xs[n] => m = n

\* C11: an app named twice counts once: the call with a name added that the list
\* has already (in any spelling) returns what the call without it returns, and
\* no list of matched apps of a report holds an app twice.
C11_DuplicatesOnce ==
    /\ \A i, j \in 1..Len(calls) :
          (/\ calls[j].installed_apps /= <<>>
           /\ Extends(i, j, calls[j].installed_apps[Len(calls[j].installed_apps)])
           /\ calls[j].installed_apps[Len(calls[j].installed_apps)].type = "str"
           /\ AlreadyIn(calls[j].installed_apps[Len(calls[j].installed_apps)], calls[i])
           /\ AllStr(calls[i].installed_apps))
          => /\ calls[i].returned /= <<>>
             /\ calls[j].returned = calls[i].returned
    /\ \A k \in 1..Len(calls) :
          calls[k].returned /= <<>>
          => LET result == calls[k].returned[1]
             IN  /\ \A category \in DOMAIN result.discriminator_analysis.matched_apps :
                       NoRepeats(result.discriminator_analysis.matched_apps[category])
                 /\ \A category \in DOMAIN result.neutral_analysis.usage_patterns :
                       NoRepeats(result.neutral_analysis.usage_patterns[category].apps)

\* C11, its case: a discriminator app and then a weighted neutral app were added
\* to a list that named them already
C11_Witness ==
    \E i, j, k \in 1..Len(calls) :
        /\ calls[j].installed_apps /= <<>> /\ calls[k].installed_apps /= <<>>
        /\ Extends(i, j, calls[j].installed_apps[Len(calls[j].installed_apps)])
        /\ Extends(j, k, calls[k].installed_apps[Len(calls[k].installed_apps)])
        /\ NamesOneOf(calls[j].installed_apps[Len(calls[j].installed_apps)],
                      TIER_DISCRIMINATORS.tier_a_premium)
        /\ NamesOneOf(calls[k].installed_apps[Len(calls[k].installed_apps)],
                      NEUTRAL_APPS.food_delivery)
        /\ AlreadyIn(calls[j].installed_apps[Len(calls[j].installed_apps)], calls[i])
        /\ AlreadyIn(calls[k].installed_apps[Len(calls[k].installed_apps)], calls[i])
        /\ calls[k].returned /= <<>>
        /\ calls[k].returned = calls[i].returned

\* the mapping the neutral analyzer reads: the empty one for None
UsageItems(call) ==
    IF call.behavioral_data.is_none THEN <<>> ELSE call.behavioral_data.items

\* the key '<app>_<metric>' is in the usage mapping of the call
Supplied(call, key) == key \in DOMAIN UsageItems(call)

\* C12: a missing figure is replaced by its default and raises nothing: in every
\* entry of the usage report the frequency is the supplied one, or 5; the order
\* value is the supplied one, or 200; the monthly spend is the supplied one, or
\* that frequency times that order value, the keys being those of the first
\* matched app; and a call with None returns what the call with {} returns.
C12_Defaults ==
    /\ \A k \in 1..Len(calls) :
          AllStr(calls[k].installed_apps)
          => /\ calls[k].raised = ""
             /\ Len(calls[k].returned) = 1
             /\ LET report == calls[k].returned[1].neutral_analysis.usage_patterns
                IN  \A category \in DOMAIN report :
                       LET proxy == report[category].apps[1]
                           data == UsageItems(calls[k])
                           frequency == report[category].frequency
                           aov == report[category].aov
                           monthly_spend == report[category].monthly_spend
                       IN  /\ Supplied(calls[k], proxy \o ORDERS_PER_MONTH)
                                => frequency = data[proxy \o ORDERS_PER_MONTH]
                           /\ ~Supplied(calls[k], proxy \o ORDERS_PER_MONTH)
                                => frequency = 5
                           /\ Supplied(calls[k], proxy \o AVG_ORDER_VALUE)
                                => aov = data[proxy \o AVG_ORDER_VALUE]
                           /\ ~Supplied(calls[k], proxy \o AVG_ORDER_VALUE)
                                => aov = 200
                           /\ Supplied(calls[k], proxy \o MONTHLY_SPEND)
                                => monthly_spend = data[proxy \o MONTHLY_SPEND]
                           /\ ~Supplied(calls[k], proxy \o MONTHLY_SPEND)
                                => monthly_spend = frequency * aov
    /\ \A i, j \in 1..Len(calls) :
          (/\ calls[i].installed_apps = calls[j].installed_apps
           /\ calls[i].behavioral_data = NONE_DATA
           /\ calls[j].behavioral_data = Dict(<<>>))
          => calls[i].returned = calls[j].returned

\* C12, its case: one list with zomato was analyzed with None, with {} and with
\* the frequency alone; the last call took 12 orders at the default value 200
\* and the monthly spend 2400
C12_Witness ==
    \E i, j, k \in 1..Len(calls) :
        /\ calls[i].installed_apps = calls[j].installed_apps
        /\ calls[j].installed_apps = calls[k].installed_apps
        /\ calls[i].behavioral_data = NONE_DATA
        /\ calls[j].behavioral_data = Dict(<<>>)
        /\ calls[k].behavioral_data = ZOMATO_FREQUENCY_ONLY
        /\ calls[i].returned /= <<>> /\ calls[k].returned /= <<>>
        /\ "food_delivery" \in DOMAIN calls[i].returned[1].neutral_analysis.usage_patterns
        /\ calls[i].returned[1].neutral_analysis.usage_patterns.food_delivery.monthly_spend
              = 1000
        /\ calls[k].returned[1].neutral_analysis.usage_patterns.food_delivery.frequency = 12
        /\ calls[k].returned[1].neutral_analysis.usage_patterns.food_delivery.aov = 200
        /\ calls[k].returned[1].neutral_analysis.usage_patterns.food_delivery.monthly_spend
              = 2400

\* the worker has left its call
Done(w) == workers[w].pc \in {"returned", "raised"}

\* C13: calls that run at the same time do not disturb each other: however the
\* steps of the workers interleave, a call that has ended has raised and
\* returned exactly what analyze_apps_with_behavior gives for its input alone.
C13_Isolated ==
    \A w \in WORKERS :
        Done(w)
        => LET alone == analyze_apps_with_behavior(workers[w].installed_apps,
                                                   workers[w].behavioral_data)
           IN  /\ workers[w].raised = alone.raised
               /\ workers[w].returned = alone.returned
               /\ (workers[w].pc = "raised") <=> (alone.raised /= "")

\* C13, its case: two calls with different inputs have both returned, and
\* differ in their results
C13_Witness ==
    \E v, w \in WORKERS :
        /\ workers[v].pc = "returned"
        /\ workers[w].pc = "returned"
        /\ workers[v].installed_apps /= workers[w].installed_apps
        /\ workers[v].returned /= workers[w].returned
        /\ workers[v].returned[1].neutral_analysis.spending > 0
        /\ workers[w].returned[1].discriminator_analysis.spending /= 0

\* no list of the report holds the name of the caller
Untouched(result) ==
    /\ \A category \in DOMAIN result.discriminator_analysis.matched_apps :
          ~list_contains(result.discriminator_analysis.matched_apps[category], CALLER_NAME)
    /\ \A category \in DOMAIN result.neutral_analysis.usage_patterns :
          ~list_contains(result.neutral_analysis.usage_patterns[category].apps, CALLER_NAME)

C15_Recommendations ==
    /\ \A k \in 1..Len(calls) :
          calls[k].returned /= <<>>
          => LET result == calls[k].returned[1]
             IN  /\ Len(result.recommendations) = 3
                 /\ result.spending_tier = PREMIUM_TIER
                      => result.recommendations = PREMIUM_RECOMMENDATIONS
                 /\ result.spending_tier = STANDARD_TIER
                      => result.recommendations = STANDARD_RECOMMENDATIONS
                 /\ result.spending_tier = BASIC_TIER
                      => result.recommendations = BASIC_RECOMMENDATIONS
    /\ \A i, j \in 1..Len(calls) :
          (/\ calls[i].returned /= <<>>
           /\ calls[j].returned /= <<>>
           /\ calls[i].returned[1].spending_tier = calls[j].returned[1].spending_tier)
          => calls[i].returned[1].recommendations = calls[j].returned[1].recommendations

\* C15, its case: two results with the same spending tier and the same list
\* differ in the geographic tier and in the lifestyle category, and a third
\* result has another spending tier and another list
C15_Witness ==
    \E i, j, k \in 1..Len(calls) :
        /\ calls[i].returned /= <<>> /\ calls[j].returned /= <<>> /\ calls[k].returned /= <<>>
        /\ calls[i].returned[1].spending_tier = calls[j].returned[1].spending_tier
        /\ calls[i].returned[1].geographic_tier /= calls[j].returned[1].geographic_tier
        /\ calls[i].returned[1].lifestyle_category /= calls[j].returned[1].lifestyle_category
        /\ calls[i].returned[1].recommendations = calls[j].returned[1].recommendations
        /\ calls[k].returned[1].spending_tier /= calls[i].returned[1].spending_tier
        /\ calls[k].returned[1].recommendations /= calls[i].returned[1].recommendations

\* the number of distinct apps of the list of the table named by the installed list
Installed(apps, installed_apps) ==
    Cardinality({name \in NamesOf(apps) :
                    \E n \in 1..Len(installed_apps) :
                        SameSpelling(installed_apps[n].chars, name)})

\* C16: the discriminator totals are, on every axis, the sum over the three
\* categories of k times the weight of the category, k being the number of
\* distinct installed apps of the category (the length of its matched list):
\* 1.0, 0.8, 0.8 for tier A, 0.3, 0.4, 0.5 for tier B, -0.4, -0.5, -0.3 for
\* tier C; a category without a match adds nothing.
C16_Proportional ==
    \A n \in 1..Len(calls) :
        calls[n].returned /= <<>>
        => LET scores == calls[n].returned[1].discriminator_analysis
               a == Len(scores.matched_apps.tier_a_premium)
               b == Len(scores.matched_apps.tier_b_mainstream)
               c == Len(scores.matched_apps.tier_c_budget)
           IN  /\ a = Installed(TIER_DISCRIMINATORS.tier_a_premium, calls[n].installed_apps)
               /\ b = Installed(TIER_DISCRIMINATORS.tier_b_mainstream, calls[n].installed_apps)
               /\ c = Installed(TIER_DISCRIMINATORS.tier_c_budget, calls[n].installed_apps)
               /\ scores.spending = a * 1000 * Milli + b * 300 * Milli - c * 400 * Milli
               /\ scores.geographic = a * 800 * Milli + b * 400 * Milli - c * 500 * Milli
               /\ scores.lifestyle = a * 800 * Milli + b * 500 * Milli - c * 300 * Milli

\* C16, its case: a list matched five tier-A apps, one tier-B app and one
\* tier-C app, whose weights are negative: 5.0 + 0.3 - 0.4 on the spending axis
C16_Witness ==
    \E n \in 1..Len(calls) :
        /\ calls[n].returned /= <<>>
        /\ Len(calls[n].returned[1].discriminator_analysis.matched_apps.tier_a_premium) = 5
        /\ Len(calls[n].returned[1].discriminator_analysis.matched_apps.tier_b_mainstream) = 1
        /\ Len(calls[n].returned[1].discriminator_analysis.matched_apps.tier_c_budget) = 1
        /\ calls[n].returned[1].discriminator_analysis.spending = 4900 * Milli
        /\ calls[n].returned[1].discriminator_analysis.geographic = 3900 * Milli
        /\ calls[n].returned[1].discriminator_analysis.lifestyle = 4200 * Milli

\* the indexes, in the list of the table, of the apps the installed list names
DeclaredIndexes(apps, installed_apps) ==
    {m \in 1..Len(apps) :
        \E n \in 1..Len(installed_apps) : SameSpelling(installed_apps[n].chars, apps[m])}

\* the first app of the list of the table, in its order, that is installed
FirstDeclared(apps, installed_apps) ==
    apps[CHOOSE m \in DeclaredIndexes(apps, installed_apps) :
            \A n \in DeclaredIndexes(apps, installed_apps) : m <= n]

\* the figure of the usage entry is the one of the key of the app, or the default
ReadFor(call, app, suffix, default, figure) ==
    figure = (IF Supplied(call, app \o suffix) THEN UsageItems(call)[app \o suffix]
              ELSE default)

RECURSIVE SumOfScores(_, _)
SumOfScores(report, i) ==
    IF i > Len(NEUTRAL_CATEGORIES) THEN 0
    ELSE (IF NEUTRAL_CATEGORIES[i] \in DOMAIN report
          THEN report[NEUTRAL_CATEGORIES[i]].behavioral_score ELSE 0)
         + SumOfScores(report, i + 1)

\* C18: the behavioral score of a usage entry is frequency * frequency_weight +
\* (aov / 100) * aov_weight + (monthly_spend / 1000) * total_spend_weight; the
\* neutral spending total is the sum of the scores, the neutral geographic total
\* is 0.5 times it and the neutral lifestyle total 0.3 times it; zomato with 8
\* orders at 350 scores 0.974.
C18_BehavioralScore ==
    \A k \in 1..Len(calls) :
        calls[k].returned /= <<>>
        => LET scores == calls[k].returned[1].neutral_analysis
               report == scores.usage_patterns
           IN  /\ \A category \in DOMAIN report :
                     LET entry == report[category]
                         weights == NEUTRAL_BEHAVIOR_WEIGHTS[category]
                     IN  /\ (entry.aov * weights.aov_weight) % 100 = 0
                         /\ (entry.monthly_spend * weights.total_spend_weight) % 1000 = 0
                         /\ entry.behavioral_score
                               = entry.frequency * weights.frequency_weight
                                 + (entry.aov * weights.aov_weight) \div 100
                                 + (entry.monthly_spend * weights.total_spend_weight)
                                      \div 1000
               /\ scores.spending = SumOfScores(report, 1)
               /\ 10 * scores.geographic = 5 * scores.spending
               /\ 10 * scores.lifestyle = 3 * scores.spending
               /\ ("food_delivery" \in DOMAIN report
                   /\ report.food_delivery.frequency = 8
                   /\ report.food_delivery.aov = 350
                   /\ report.food_delivery.monthly_spend = 8 * 350)
                  => report.food_delivery.behavioral_score = 974 * Milli

\* C18, its case: zomato with 8 orders at 350 was analyzed next to an app of
\* transportation and one of payments without figures: the scores are 0.974,
\* 0.47 and 0.52, the neutral totals 1.964, 0.982 and 0.5892
C18_Witness ==
    \E k \in 1..Len(calls) :
        /\ calls[k].returned /= <<>>
        /\ calls[k].behavioral_data = ZOMATO_USAGE
        /\ LET scores == calls[k].returned[1].neutral_analysis
           IN  /\ DOMAIN scores.usage_patterns = {"food_delivery", "transportation", "payments"}
               /\ scores.usage_patterns.food_delivery.behavioral_score = 974 * Milli
               /\ scores.usage_patterns.transportation.behavioral_score = 470 * Milli
               /\ scores.usage_patterns.payments.behavioral_score = 520 * Milli
               /\ scores.spending = 1964 * Milli
               /\ scores.geographic = 982 * Milli
               /\ scores.lifestyle = 589200

\* the neutral categories of which the installed list names an app
MatchedNeutral(installed_apps) ==
    {category \in DOMAIN NEUTRAL_APPS :
        Installed(NEUTRAL_APPS[category], installed_apps) > 0}

\* C19 as stated: the usage report has an entry for every neutral category with
\* at least one matched installed app.
C19_EveryMatchedCategory ==
    \A k \in 1..Len(calls) :
        calls[k].returned /= <<>>
        => MatchedNeutral(calls[k].installed_apps)
              \subseteq DOMAIN calls[k].returned[1].neutral_analysis.usage_patterns

\* C19, amended: the usage report has an entry (matched apps, frequency, AOV,
\* monthly spend, behavioral score) for every matched neutral category that has
\* behavioural weights (food_delivery, transportation, payments, ecommerce),
\* and for no other category: a matched app of travel, social_media or
\* entertainment gives no entry.
C19_WeightedMatchedCategories ==
    \A k \in 1..Len(calls) :
        calls[k].returned /= <<>>
        => LET report == calls[k].returned[1].neutral_analysis.usage_patterns
           IN  /\ DOMAIN report =
                     MatchedNeutral(calls[k].installed_apps)
                        \cap {"food_delivery", "transportation", "payments", "ecommerce"}
               /\ \A category \in DOMAIN report :
                     /\ DOMAIN report[category] =
                           {"apps", "frequency", "aov", "monthly_spend", "behavioral_score"}
                     /\ Len(report[category].apps)
                           = Installed(NEUTRAL_APPS[category], calls[k].installed_apps)
                     /\ \A n \in 1..Len(report[category].apps) :
                           /\ list_contains(NEUTRAL_APPS[category], report[category].apps[n])
                           /\ AlreadyIn(Str(report[category].apps[n]), calls[k])

\* C19, its case: a list with apps of entertainment, social_media and
\* food_delivery was analyzed, and the report has the entry of food_delivery only
C19_Witness ==
    \E k \in 1..Len(calls) :
        /\ calls[k].returned /= <<>>
        /\ MatchedNeutral(calls[k].installed_apps)
              = {"entertainment", "social_media", "food_delivery"}
        /\ DOMAIN calls[k].returned[1].neutral_analysis.usage_patterns = {"food_delivery"}
        /\ calls[k].returned[1].neutral_analysis.usage_patterns.food_delivery.apps /= <<>>

\* the entry names an app of a neutral category without behavioural weights
Unweighted(entry) ==
    \/ NamesOneOf(entry, NEUTRAL_APPS.travel)
    \/ NamesOneOf(entry, NEUTRAL_APPS.social_media)
    \/ NamesOneOf(entry, NEUTRAL_APPS.entertainment)

\* C20: an app of travel, social_media or entertainment scores nothing: the call
\* with such an app added to the list has the three axis scores (the reported
\* ones and the totals of either analyzer) and the three tiers of the call
\* without it, for the same usage mapping.
C20_UnweightedScoreNothing ==
    \A i, j \in 1..Len(calls) :
        (/\ calls[j].installed_apps /= <<>>
         /\ Extends(i, j, calls[j].installed_apps[Len(calls[j].installed_apps)])
         /\ Unweighted(calls[j].installed_apps[Len(calls[j].installed_apps)])
         /\ calls[i].returned /= <<>>)
        => /\ calls[j].returned /= <<>>
           /\ LET before == calls[i].returned[1]
                  after == calls[j].returned[1]
              IN  /\ after.spending_score = before.spending_score
                  /\ after.geographic_score = before.geographic_score
                  /\ after.lifestyle_score = before.lifestyle_score
                  /\ after.spending_tier = before.spending_tier
                  /\ after.geographic_tier = before.geographic_tier
                  /\ after.lifestyle_category = before.lifestyle_category
                  /\ after.neutral_analysis.spending = before.neutral_analysis.spending
                  /\ after.neutral_analysis.geographic = before.neutral_analysis.geographic
                  /\ after.neutral_analysis.lifestyle = before.neutral_analysis.lifestyle
                  /\ after.discriminator_analysis.spending
                        = before.discriminator_analysis.spending

\* C20, its case: an app of travel was added to a list that scores on neutral
\* and on discriminator apps and names no app of travel, with figures supplied
C20_Witness ==
    \E i, j \in 1..Len(calls) :
        /\ calls[j].installed_apps /= <<>>
        /\ Extends(i, j, calls[j].installed_apps[Len(calls[j].installed_apps)])
        /\ NamesOneOf(calls[j].installed_apps[Len(calls[j].installed_apps)],
                      NEUTRAL_APPS.travel)
        /\ ~AlreadyIn(calls[j].installed_apps[Len(calls[j].installed_apps)], calls[i])
        /\ ~NoUsage(calls[i])
        /\ calls[i].returned /= <<>>
        /\ calls[j].returned /= <<>>
        /\ calls[i].returned[1].neutral_analysis.spending > 0
        /\ calls[i].returned[1].discriminator_analysis.spending > 0
        /\ calls[j].returned[1].spending_score = calls[i].returned[1].spending_score

\* the position of a geographic label, lowest tier first
GeographicRank(label) ==
    CASE label = TIER_3_CITY -> 1
      [] label = TIER_2_CITY -> 2
      [] label = TIER_1_CITY -> 3

\* the resolutions of one resolver
ResolutionsOf(axis) ==
    {k \in 1..Len(resolutions) : resolutions[k].axis = axis}

\* C21: the geographic resolver gives every score exactly one label: Tier 1
\* City iff score >= 0.8, Tier 2 City iff 0.3 <= score < 0.8, Tier 3 City iff
\* score < 0.3, negative scores included; a score on a threshold gets the
\* higher tier, and of two scores the higher never gets the lower tier.
C21_GeographicTier ==
    /\ \A k \in ResolutionsOf("geographic") :
          LET score == resolutions[k].score
              label == resolutions[k].label
          IN  /\ (label = TIER_1_CITY) <=> (score >= 800 * Milli)
              /\ (label = TIER_2_CITY) <=> (score >= 300 * Milli /\ score < 800 * Milli)
              /\ (label = TIER_3_CITY) <=> (score < 300 * Milli)
              /\ Cardinality({l \in {TIER_1_CITY, TIER_2_CITY, TIER_3_CITY} :
                                l = label}) = 1
              /\ score = 800 * Milli => label = TIER_1_CITY
              /\ score = 300 * Milli => label = TIER_2_CITY
              /\ score < 0 => label = TIER_3_CITY
    /\ \A i, j \in ResolutionsOf("geographic") :
          resolutions[i].score >= resolutions[j].score
          => GeographicRank(resolutions[i].label) >= GeographicRank(resolutions[j].label)

\* C21, its case: 0.8 has resolved to Tier 1, 0.3 to Tier 2 and a negative
\* score to Tier 3
C21_Witness ==
    \E i, j, k \in ResolutionsOf("geographic") :
        /\ resolutions[i].score = 800 * Milli
        /\ resolutions[i].label = TIER_1_CITY
        /\ resolutions[j].score = 300 * Milli
        /\ resolutions[j].label = TIER_2_CITY
        /\ resolutions[k].score < 0
        /\ resolutions[k].label = TIER_3_CITY

PROFESSIONAL_URBAN == "Professional/Urban"
ENTERTAINMENT_SOCIAL == "Entertainment/Social"
BASIC_CONSERVATIVE == "Basic/Conservative"

\* the position of a lifestyle label, lowest category first
LifestyleRank(label) ==
    CASE label = BASIC_CONSERVATIVE -> 1
      [] label = ENTERTAINMENT_SOCIAL -> 2
      [] label = PROFESSIONAL_URBAN -> 3

\* C22: the lifestyle resolver gives every score exactly one label:
\* Professional/Urban iff score >= 0.6, Entertainment/Social iff
\* 0.2 <= score < 0.6, Basic/Conservative iff score < 0.2, negative scores
\* included; a score on a threshold gets the higher category, and of two
\* scores the higher never gets the lower category.
C22_LifestyleCategory ==
    /\ \A k \in ResolutionsOf("lifestyle") :
          LET score == resolutions[k].score
              label == resolutions[k].label
          IN  /\ (label = PROFESSIONAL_URBAN) <=> (score >= 600 * Milli)
              /\ (label = ENTERTAINMENT_SOCIAL) <=> (score >= 200 * Milli /\ score < 600 * Milli)
              /\ (label = BASIC_CONSERVATIVE) <=> (score < 200 * Milli)
              /\ Cardinality({l \in {PROFESSIONAL_URBAN, ENTERTAINMENT_SOCIAL,
                                     BASIC_CONSERVATIVE} : l = label}) = 1
              /\ score = 600 * Milli => label = PROFESSIONAL_URBAN
              /\ score = 200 * Milli => label = ENTERTAINMENT_SOCIAL
              /\ score < 0 => label = BASIC_CONSERVATIVE
    /\ \A i, j \in ResolutionsOf("lifestyle") :
          resolutions[i].score >= resolutions[j].score
          => LifestyleRank(resolutions[i].label) >= LifestyleRank(resolutions[j].label)

\* C22, its case: 0.6 has resolved to Professional/Urban, 0.2 to
\* Entertainment/Social and a negative score to Basic/Conservative
C22_Witness ==
    \E i, j, k \in ResolutionsOf("lifestyle") :
        /\ resolutions[i].score = 600 * Milli
        /\ resolutions[i].label = PROFESSIONAL_URBAN
        /\ resolutions[j].score = 200 * Milli
        /\ resolutions[j].label = ENTERTAINMENT_SOCIAL
        /\ resolutions[k].score < 0
        /\ resolutions[k].label = BASIC_CONSERVATIVE

\* the unrounded combined geographic and lifestyle scores of a result
CombinedGeographic(result) ==
    result.discriminator_analysis.geographic + result.neutral_analysis.geographic
CombinedLifestyle(result) ==
    result.discriminator_analysis.lifestyle + result.neutral_analysis.lifestyle

\* the labels the thresholds give to the three scores
SpendingLabelOf(score) ==
    IF score >= 4 * Unit THEN PREMIUM_TIER
    ELSE IF score >= 1500 * Milli THEN STANDARD_TIER ELSE BASIC_TIER
GeographicLabelOf(score) ==
    IF score >= 800 * Milli THEN TIER_1_CITY
    ELSE IF score >= 300 * Milli THEN TIER_2_CITY ELSE TIER_3_CITY
LifestyleLabelOf(score) ==
    IF score >= 600 * Milli THEN PROFESSIONAL_URBAN
    ELSE IF score >= 200 * Milli THEN ENTERTAINMENT_SOCIAL ELSE BASIC_CONSERVATIVE

\* C23: in every call that returns, the two analyses of the result are those
\* of the discriminator and of the neutral analyzer on the normalized list,
\* the score reported on each axis is the sum of their two totals (rounded to
\* two decimals), each label is the one the thresholds give to the unrounded
\* sum, and the steps ran in the order normalize, discriminator analysis,
\* neutral analysis, sum, the three resolvers, confidence, recommendations.
C23_Orchestrator ==
    \A k \in 1..Len(calls) :
        calls[k].returned /= <<>>
        => LET result == calls[k].returned[1]
               apps_lower == normalize(calls[k].installed_apps)
           IN  /\ result.discriminator_analysis = _analyze_discriminators(apps_lower)
               /\ result.neutral_analysis =
                      _analyze_neutral_apps(apps_lower, calls[k].behavioral_data)
               /\ result.spending_score = round2(CombinedSpending(result))
               /\ result.geographic_score = round2(CombinedGeographic(result))
               /\ result.lifestyle_score = round2(CombinedLifestyle(result))
               /\ result.spending_tier = SpendingLabelOf(CombinedSpending(result))
               /\ result.geographic_tier = GeographicLabelOf(CombinedGeographic(result))
               /\ result.lifestyle_category = LifestyleLabelOf(CombinedLifestyle(result))
               /\ calls[k].steps =
                      <<"normalize", "_analyze_discriminators", "_analyze_neutral_apps",
                        "sum", "_get_spending_tier", "_get_geographic_tier",
                        "_get_lifestyle_category", "_calculate_confidence",
                        "_get_recommendations">>

\* C23, its case: a call has returned with both analyzers contributing, its
\* combined spending score 3.99996 reported as 4.0 and resolved, unrounded, to
\* Standard
C23_Witness ==
    \E k \in 1..Len(calls) :
        /\ calls[k].returned /= <<>>
        /\ calls[k].returned[1].discriminator_analysis.spending = 3 * Unit
        /\ calls[k].returned[1].neutral_analysis.spending = 999960
        /\ calls[k].returned[1].spending_score = 4 * Unit
        /\ calls[k].returned[1].spending_tier = STANDARD_TIER
        /\ Len(calls[k].steps) = 9

\* the three usage keys named after cred
CRED_KEYS ==
    { cred \o ORDERS_PER_MONTH, cred \o AVG_ORDER_VALUE, cred \o MONTHLY_SPEND }

\* C24: the discriminator analysis depends on the installed list alone: two
\* calls with the same list return the same discriminator totals and the same
\* lists of matched discriminator apps whatever their usage mappings are, a
\* mapping keyed by a discriminator app included.
C24_PresenceOnly ==
    \A i, j \in 1..Len(calls) :
        /\ calls[i].installed_apps = calls[j].installed_apps
        /\ calls[i].returned /= <<>>
        => /\ calls[j].returned /= <<>>
           /\ calls[j].returned[1].discriminator_analysis =
                  calls[i].returned[1].discriminator_analysis
           /\ calls[j].returned[1].discriminator_analysis =
                  _analyze_discriminators(normalize(calls[i].installed_apps))

\* C24, its case: the same list with cred in it has been analysed without
\* usage figures, with figures keyed by cred and with figures of its neutral
\* app, the neutral totals differ and cred counts once each time
C24_Witness ==
    \E i, j, k \in 1..Len(calls) :
        /\ calls[i].installed_apps = calls[j].installed_apps
        /\ calls[i].installed_apps = calls[k].installed_apps
        /\ calls[i].behavioral_data = NONE_DATA
        /\ CRED_KEYS \subseteq DOMAIN UsageItems(calls[j])
        /\ calls[k].returned /= <<>>
        /\ calls[k].returned[1].neutral_analysis.spending
              /= calls[i].returned[1].neutral_analysis.spending
        /\ calls[j].returned[1].discriminator_analysis.matched_apps.tier_a_premium
              = <<cred>>
        /\ calls[j].returned[1].discriminator_analysis.spending = Unit
        /\ calls[i].returned[1].discriminator_analysis.spending = Unit
        /\ calls[k].returned[1].discriminator_analysis.spending = Unit

\* C25: Premium needs tier-A apps: every call that returns the Premium spending
\* tier has matched at least one tier_a_premium app.
C25_PremiumNeedsTierA ==
    \A k \in 1..Len(calls) :
        /\ calls[k].returned /= <<>>
        /\ calls[k].returned[1].spending_tier = PREMIUM_TIER
        => calls[k].returned[1].discriminator_analysis.matched_apps.tier_a_premium
              /= <<>>

\* the position of a spending label, lowest tier first
SpendingRank(label) ==
    CASE label = BASIC_TIER -> 1
      [] label = STANDARD_TIER -> 2
      [] label = PREMIUM_TIER -> 3

\* the entry a call has added at the end of the list of another
LastEntry(call) == call.installed_apps[Len(call.installed_apps)]

\* call j is call i with a tier_c_budget app, which the list of call i does not
\* name, added at the end of its list, and both have returned
AddsBudgetApp(i, j) ==
    /\ calls[i].returned /= <<>>
    /\ calls[j].returned /= <<>>
    /\ calls[j].installed_apps /= <<>>
    /\ Extends(i, j, LastEntry(calls[j]))
    /\ NamesOneOf(LastEntry(calls[j]), TIER_DISCRIMINATORS.tier_c_budget)
    /\ ~AlreadyIn(LastEntry(calls[j]), calls[i])

\* C26: a tier_c_budget app added to a list that does not name it lowers the
\* combined spending, geographic and lifestyle scores by exactly 0.4, 0.5 and
\* 0.3, so no tier of the result is higher than before; a combined score that
\* becomes negative resolves to the lowest label of its axis.
C26_BudgetLowers ==
    \A i, j \in 1..Len(calls) :
        AddsBudgetApp(i, j)
        => LET before == calls[i].returned[1]
               after == calls[j].returned[1]
           IN  /\ CombinedSpending(after) = CombinedSpending(before) - 400 * Milli
               /\ CombinedGeographic(after) = CombinedGeographic(before) - 500 * Milli
               /\ CombinedLifestyle(after) = CombinedLifestyle(before) - 300 * Milli
               /\ SpendingRank(after.spending_tier) <= SpendingRank(before.spending_tier)
               /\ GeographicRank(after.geographic_tier)
                     <= GeographicRank(before.geographic_tier)
               /\ LifestyleRank(after.lifestyle_category)
                     <= LifestyleRank(before.lifestyle_category)
               /\ CombinedSpending(after) < 0 => after.spending_tier = BASIC_TIER
               /\ CombinedGeographic(after) < 0 => after.geographic_tier = TIER_3_CITY
               /\ CombinedLifestyle(after) < 0
                     => after.lifestyle_category = BASIC_CONSERVATIVE

\* C26, its case: a tier-C app was added to a list in Tier 2 City and
\* Entertainment/Social with a behavioural score, the geographic and lifestyle
\* scores became negative and their labels the lowest ones; then a second
\* tier-C app was added and lowered the three scores again
C26_Witness ==
    \E i, j, k \in 1..Len(calls) :
        /\ AddsBudgetApp(i, j)
        /\ AddsBudgetApp(j, k)
        /\ calls[i].returned[1].neutral_analysis.spending > 0
        /\ calls[i].returned[1].geographic_tier = TIER_2_CITY
        /\ calls[i].returned[1].lifestyle_category = ENTERTAINMENT_SOCIAL
        /\ CombinedGeographic(calls[j].returned[1]) < 0
        /\ calls[j].returned[1].geographic_tier = TIER_3_CITY
        /\ CombinedLifestyle(calls[j].returned[1]) < 0
        /\ calls[j].returned[1].lifestyle_category = BASIC_CONSERVATIVE
        /\ CombinedSpending(calls[j].returned[1])
              = CombinedSpending(calls[i].returned[1]) - 400 * Milli
        /\ CombinedSpending(calls[k].returned[1])
              = CombinedSpending(calls[i].returned[1]) - 800 * Milli

\* call j is call i with one more entry at the end of its list, and both have
\* returned
AddsEntry(i, j) ==
    /\ calls[i].returned /= <<>>
    /\ calls[j].returned /= <<>>
    /\ calls[j].installed_apps /= <<>>
    /\ Extends(i, j, LastEntry(calls[j]))

\* the entry of call j is a discriminator app its list did not name before
AddsDiscriminator(i, j) ==
    /\ AddsEntry(i, j)
    /\ \E category \in DOMAIN TIER_DISCRIMINATORS :
          NamesOneOf(LastEntry(calls[j]), TIER_DISCRIMINATORS[category])
    /\ ~AlreadyIn(LastEntry(calls[j]), calls[i])

\* the entry of call j has given the usage report one more neutral category
AddsNeutralCategory(i, j) ==
    /\ AddsEntry(i, j)
    /\ \E category \in DOMAIN calls[j].returned[1].neutral_analysis.usage_patterns :
          /\ category \notin DOMAIN calls[i].returned[1].neutral_analysis.usage_patterns
          /\ NamesOneOf(LastEntry(calls[j]), NEUTRAL_APPS[category])

\* C27: the confidence of every result lies in [0, 100]; a call with one more
\* app in the list never has a lower confidence than the call without it; and
\* below the cap one more discriminator app raises the confidence by 20, twice
\* the 10 that one more neutral category of the usage report raises it by
\* (total_strength grows by 2 and by 1).
C27_ConfidenceMonotone ==
    /\ \A k \in 1..Len(calls) :
          calls[k].returned /= <<>>
          => /\ calls[k].returned[1].confidence >= 0
             /\ calls[k].returned[1].confidence <= 100 * Unit
    /\ \A i, j \in 1..Len(calls) :
          LET before == calls[i].returned[1]
              after == calls[j].returned[1]
          IN  /\ AddsEntry(i, j) => after.confidence >= before.confidence
              /\ AddsDiscriminator(i, j)
                    => /\ ReportedStrength(after) = ReportedStrength(before) + 2
                       /\ after.confidence =
                              IF ReportedStrength(after) >= 10 THEN 100 * Unit
                              ELSE before.confidence + 20 * Unit
              /\ AddsNeutralCategory(i, j)
                    => /\ ReportedStrength(after) = ReportedStrength(before) + 1
                       /\ after.confidence =
                              IF ReportedStrength(after) >= 10 THEN 100 * Unit
                              ELSE before.confidence + 10 * Unit

\* C27, its case: to a list of confidence 70 a neutral app of a new category was
\* added and then a discriminator app, and the confidence became 80 and 100
C27_Witness ==
    \E i, j, k \in 1..Len(calls) :
        /\ AddsNeutralCategory(i, j)
        /\ AddsDiscriminator(j, k)
        /\ calls[i].returned[1].confidence = 70 * Unit
        /\ calls[j].returned[1].confidence = 80 * Unit
        /\ calls[k].returned[1].confidence = 100 * Unit

\* the thresholds of the three resolvers
SPENDING_THRESHOLDS == {1500 * Milli, 4000 * Milli}
GEOGRAPHIC_THRESHOLDS == {300 * Milli, 800 * Milli}
LIFESTYLE_THRESHOLDS == {200 * Milli, 600 * Milli}

\* C28 as stated: the thresholds applied to the rounded scores of a result give
\* the labels of the result.
C28_ReportedAgree ==
    \A k \in 1..Len(calls) :
        calls[k].returned /= <<>>
        => LET result == calls[k].returned[1]
           IN  /\ SpendingLabelOf(result.spending_score) = result.spending_tier
               /\ GeographicLabelOf(result.geographic_score) = result.geographic_tier
               /\ LifestyleLabelOf(result.lifestyle_score) = result.lifestyle_category

\* rounding has carried the combined score, which lies below a threshold by at
\* most 0.005, up to that threshold
CarriedToThreshold(combined, reported, thresholds) ==
    /\ reported \in thresholds
    /\ combined < reported
    /\ reported - combined <= 5 * Milli

\* C28: the labels of a result are those of the unrounded combined scores, and
\* the thresholds applied to the rounded scores give the same labels unless
\* rounding has carried a score from below a threshold up to it: the score is
\* then reported as the threshold and the label is the one below it.
C28_ReportedAgreeUnlessCarried ==
    \A k \in 1..Len(calls) :
        calls[k].returned /= <<>>
        => LET result == calls[k].returned[1]
           IN  /\ result.spending_tier = SpendingLabelOf(CombinedSpending(result))
               /\ result.geographic_tier = GeographicLabelOf(CombinedGeographic(result))
               /\ result.lifestyle_category = LifestyleLabelOf(CombinedLifestyle(result))
               /\ \/ SpendingLabelOf(result.spending_score) = result.spending_tier
                  \/ CarriedToThreshold(CombinedSpending(result), result.spending_score,
                                        SPENDING_THRESHOLDS)
               /\ \/ GeographicLabelOf(result.geographic_score) = result.geographic_tier
                  \/ CarriedToThreshold(CombinedGeographic(result),
                                        result.geographic_score, GEOGRAPHIC_THRESHOLDS)
               /\ \/ LifestyleLabelOf(result.lifestyle_score) = result.lifestyle_category
                  \/ CarriedToThreshold(CombinedLifestyle(result),
                                        result.lifestyle_score, LIFESTYLE_THRESHOLDS)

\* C28, its case: a combined spending score of 3.99996 is reported as 4.0 with
\* the Standard tier, next to a geographic score whose rounded value gives the
\* reported label
C28_Witness ==
    \E k \in 1..Len(calls) :
        /\ calls[k].returned /= <<>>
        /\ CombinedSpending(calls[k].returned[1]) = 3999960
        /\ calls[k].returned[1].spending_score = 4 * Unit
        /\ calls[k].returned[1].spending_tier = STANDARD_TIER
        /\ calls[k].returned[1].geographic_score /= CombinedGeographic(calls[k].returned[1])
        /\ GeographicLabelOf(calls[k].returned[1].geographic_score)
              = calls[k].returned[1].geographic_tier

\* call j has the entries of call i in some order, and its usage mapping
Reorders(i, j) ==
    /\ calls[j].installed_apps \in PermutationsOf(calls[i].installed_apps)
    /\ calls[j].behavioral_data = calls[i].behavioral_data

\* C29: the order of the installed list is immaterial: two calls whose lists
\* hold the same entries in different orders, with the same usage mapping,
\* return the same result in every field, the order of the apps inside each
\* matched list and the proxy app of each neutral category included; and one
\* returns if and only if the other does.
C29_OrderImmaterial ==
    \A i, j \in 1..Len(calls) :
        Reorders(i, j)
        => /\ calls[j].returned = calls[i].returned
           /\ (calls[j].raised = "") <=> (calls[i].raised = "")

\* C29, its case: a list naming swiggy before zomato and moj before sharechat
\* and a list naming them the other way round, with the figures of swiggy, have
\* returned the same result: both matched lists in their declared order, and
\* zomato the proxy with its default frequency
C29_Witness ==
    \E i, j \in 1..Len(calls) :
        /\ Reorders(i, j)
        /\ calls[i].installed_apps = Strs(<<swiggy, moj, zomato, sharechat>>)
        /\ calls[j].installed_apps = Strs(<<sharechat, zomato, moj, swiggy>>)
        /\ calls[i].behavioral_data = SWIGGY_USAGE
        /\ calls[j].returned /= <<>>
        /\ calls[j].returned = calls[i].returned
        /\ calls[j].returned[1].discriminator_analysis.matched_apps.tier_c_budget
              = <<sharechat, moj>>
        /\ calls[j].returned[1].neutral_analysis.usage_patterns.food_delivery.apps
              = <<zomato, swiggy>>
        /\ calls[j].returned[1].neutral_analysis.usage_patterns.food_delivery.frequency = 5

\* the keys the neutral analyzer reads in a call: the three keys of the proxy
\* app of every neutral category that has behavioural weights and an installed
\* app
ReadKeys(call) ==
    UNION { LET proxy == FirstDeclared(NEUTRAL_APPS[category], call.installed_apps)
            IN  {proxy \o ORDERS_PER_MONTH, proxy \o AVG_ORDER_VALUE,
                 proxy \o MONTHLY_SPEND} :
            category \in MatchedNeutral(call.installed_apps)
                            \cap DOMAIN NEUTRAL_BEHAVIOR_WEIGHTS }

\* the usage mappings of two calls hold the same keys of the set, with the same
\* values
AgreeOn(i, j, keys) ==
    \A key \in keys :
        /\ Supplied(calls[i], key) <=> Supplied(calls[j], key)
        /\ Supplied(calls[i], key) => UsageItems(calls[i])[key] = UsageItems(calls[j])[key]

\* C30: only the three keys of the proxy app of each matched weighted neutral
\* category are read from the usage mapping: two calls with the same list,
\* whose usage mappings agree on those keys and differ in any other entry
\* (added, removed or changed), return the same result in every field.
C30_OnlyProxyKeysRead ==
    \A i, j \in 1..Len(calls) :
        (/\ calls[i].installed_apps = calls[j].installed_apps
         /\ calls[i].returned /= <<>>
         /\ AgreeOn(i, j, ReadKeys(calls[i])))
        => calls[j].returned = calls[i].returned

\* the keys of the usage mapping of a call that the call does not read
UnreadKeys(call) == DOMAIN UsageItems(call) \ ReadKeys(call)

\* C30, its case: [paytm, uber, cred] was analyzed with the figures of paytm
\* alone, with the two transaction keys added, and with their values changed,
\* and the three results are equal and carry the figures of paytm
C30_Witness ==
    \E i, j, k \in 1..Len(calls) :
        /\ calls[i].installed_apps = calls[j].installed_apps
        /\ calls[i].installed_apps = calls[k].installed_apps
        /\ calls[i].behavioral_data = PAYTM_USAGE
        /\ calls[j].behavioral_data = PAYTM_TXN_USAGE
        /\ calls[k].behavioral_data = PAYTM_TXN_DEFAULTS
        /\ UnreadKeys(calls[i]) = {}
        /\ Cardinality(UnreadKeys(calls[j])) = 2
        /\ calls[i].returned /= <<>>
        /\ calls[j].returned = calls[i].returned
        /\ calls[k].returned = calls[i].returned
        /\ calls[i].returned[1].neutral_analysis.usage_patterns.payments.frequency = 15

====
